---- MODULE Spec2Model ----
(***************************************************************************)
(* Reversi: Character Duel.  A model of the board rule engine (GameCore,   *)
(* src/js/game_core.js) and of the search engine (UnifiedAIEngine,         *)
(* src/js/unified_ai_engine.js).                                           *)
(***************************************************************************)
EXTENDS Integers, Sequences, FiniteSets, TLC

VARIABLES
  board,      \* GameCore.board, and the board handed to computeMove
  turn,       \* GameCore.turn, and the side handed to computeMove: 1 black, -1 white
  gameEnded,  \* GameCore.gameEnded
  placed,     \* history: number of makeMove calls that returned true
  last,       \* history: the last GameCore call, its result and the board before it
  ai          \* UnifiedAIEngine: the state of the computeMove call in progress

vars == <<board, turn, gameEnded, placed, last, ai>>

(***************************************************************************)
(* Bounds of the exploration.                                              *)
(***************************************************************************)
\* makeMove calls that succeed in one behaviour of Spec
MaxMoves == 3
\* PlaySpec: the placements of a game, from the start, that may go to any legal cell
FreePlies == 2
\* EngineSpec: the input boards of computeMove are the positions of the policy games
\* after at most MaxOpeningPly placements, and those with at most MaxEmpty empty cells
MaxOpeningPly == 1
MaxEmpty == 4
\* EngineSpec: the latest clock sample at which the time limit is first found exceeded
MaxDeadline == 13

(***************************************************************************)
(* GameCore: static helpers.                                               *)
(***************************************************************************)
rows == 8
cols == 8

Sides == {1, -1}
Idx == 0 .. 7

\* the literal directions array of canPlace / simulateMove / makeMove
directions ==
  << <<-1, -1>>, <<-1, 0>>, <<-1, 1>>,
     <<0, -1>>, <<0, 1>>,
     <<1, -1>>, <<1, 0>>, <<1, 1>> >>

isValidBounds(r, c) == r >= 0 /\ r < 8 /\ c >= 0 /\ c < 8

\* the while loop of checkDirection after its first iteration: the cell <<nr, nc>> it stops at
RECURSIVE WalkOpponent(_, _, _, _, _, _)
WalkOpponent(b, nr, nc, dr, dc, t) ==
  IF isValidBounds(nr, nc) /\ b[nr][nc] = -t
    THEN WalkOpponent(b, nr + dr, nc + dc, dr, dc, t)
    ELSE <<nr, nc>>

\* a plausible slip: the run of -t is not required to end at a disc of t
checkDirection_Open(b, r, c, dr, dc, t) ==
  /\ isValidBounds(r + dr, c + dc)
  /\ b[r + dr][c + dc] = -t
  /\ LET e == WalkOpponent(b, r + dr + dr, c + dc + dc, dr, dc, t)
     IN  isValidBounds(e[1], e[2])

\* hasOpponent is true exactly when the loop body ran, that is when the first cell
\* in the direction holds a disc of -t
checkDirection(b, r, c, dr, dc, t) ==
  /\ isValidBounds(r + dr, c + dc)
  /\ b[r + dr][c + dc] = -t
  /\ LET e == WalkOpponent(b, r + dr + dr, c + dc + dc, dr, dc, t)
     IN  isValidBounds(e[1], e[2]) /\ b[e[1]][e[2]] = t

\* the boards: rows x cols cells, each 1 (black), -1 (white) or 0 (empty)
Boards == [Idx -> [Idx -> {-1, 0, 1}]]

\* a plausible slip: the cell is not required to be empty
canPlace_Occupied(b, r, c, t) ==
  \/ checkDirection(b, r, c, -1, -1, t) \/ checkDirection(b, r, c, -1, 0, t)
  \/ checkDirection(b, r, c, -1, 1, t) \/ checkDirection(b, r, c, 0, -1, t)
  \/ checkDirection(b, r, c, 0, 1, t) \/ checkDirection(b, r, c, 1, -1, t)
  \/ checkDirection(b, r, c, 1, 0, t) \/ checkDirection(b, r, c, 1, 1, t)

canPlace(b, r, c, t) ==
  /\ b[r][c] = 0
  /\ \/ checkDirection(b, r, c, -1, -1, t) \/ checkDirection(b, r, c, -1, 0, t)
     \/ checkDirection(b, r, c, -1, 1, t) \/ checkDirection(b, r, c, 0, -1, t)
     \/ checkDirection(b, r, c, 0, 1, t) \/ checkDirection(b, r, c, 1, -1, t)
     \/ checkDirection(b, r, c, 1, 0, t) \/ checkDirection(b, r, c, 1, 1, t)

\* the cells in the order of the two nested loops of getValidMoves
ScanOrder == [i \in 1 .. 64 |-> [r |-> (i - 1) \div 8, c |-> (i - 1) % 8]]

\* getValidMoves as a function of its arguments: TLC evaluates a function in a context
\* of its own, however deep the search that calls it
ValidMovesOf[b \in Boards, t \in Sides] ==
  SelectSeq(ScanOrder, LAMBDA m : canPlace(b, m.r, m.c, t))

getValidMoves(b, t) == ValidMovesOf[b, t]

\* a plausible slip: an if in place of the while, so that one disc only is flipped
FlipRun_Once(b, nr, nc, dr, dc, t) ==
  IF b[nr][nc] = -t THEN [b EXCEPT ![nr][nc] = t] ELSE b

\* the inner while loop of simulateMove / makeMove: flips until a cell that is not -t
RECURSIVE FlipRun(_, _, _, _, _, _)
FlipRun(b, nr, nc, dr, dc, t) ==
  IF b[nr][nc] = -t
    THEN FlipRun([b EXCEPT ![nr][nc] = t], nr + dr, nc + dc, dr, dc, t)
    ELSE b

\* simulateMove's for loop: each direction is tested on the ORIGINAL board
RECURSIVE SimulateFlips(_, _, _, _, _, _)
SimulateFlips(orig, newBoard, r, c, t, i) ==
  IF i > 8 THEN newBoard
  ELSE LET dr == directions[i][1]
           dc == directions[i][2]
       IN  SimulateFlips(orig,
             IF checkDirection(orig, r, c, dr, dc, t)
               THEN FlipRun(newBoard, r + dr, c + dc, dr, dc, t)
               ELSE newBoard,
             r, c, t, i + 1)

\* what simulateMove returns for an illegal move
NullBoard == << >>

\* simulateMove as a function of its arguments
SimulatedBoard[b \in Boards, r \in Idx, c \in Idx, t \in Sides] ==
  IF ~canPlace(b, r, c, t) THEN NullBoard
  ELSE SimulateFlips(b, [b EXCEPT ![r][c] = t], r, c, t, 1)

\* a plausible slip: no legality guard, the disc is placed whatever the cell
simulateMove_Unguarded(b, r, c, t) == SimulateFlips(b, [b EXCEPT ![r][c] = t], r, c, t, 1)

simulateMove(b, r, c, t) == SimulatedBoard[b, r, c, t]

\* makeMove's for loop from the i-th direction on: each direction is tested on the
\* board being mutated.  A function, so that each iteration starts from the board
\* the one before has built
FlipsFrom[b \in Boards, r \in Idx, c \in Idx, t \in Sides, i \in 1 .. 9] ==
  IF i > 8 THEN b
  ELSE LET dr == directions[i][1]
           dc == directions[i][2]
       IN  FlipsFrom[IF checkDirection(b, r, c, dr, dc, t)
                       THEN FlipRun(b, r + dr, c + dc, dr, dc, t)
                       ELSE b,
                     r, c, t, i + 1]

MakeMoveFlips(b, r, c, t, i) == FlipsFrom[b, r, c, t, i]

\* a plausible slip: the flips are made and the disc itself is not placed
makeMoveBoard_Unplaced(b, r, c, t) == MakeMoveFlips(b, r, c, t, 1)

\* the board makeMove leaves in this.board when it returns true
makeMoveBoard(b, r, c, t) == MakeMoveFlips([b EXCEPT ![r][c] = t], r, c, t, 1)

hasValidMove(b, t) == Len(getValidMoves(b, t)) > 0

\* the board reset() builds
StartBoard ==
  LET mid == rows \div 2
  IN  [r \in 0 .. rows - 1 |-> [c \in 0 .. cols - 1 |->
        IF (r = mid - 1 /\ c = mid - 1) \/ (r = mid /\ c = mid) THEN -1
        ELSE IF (r = mid - 1 /\ c = mid) \/ (r = mid /\ c = mid - 1) THEN 1
        ELSE 0]]

CountCells(b, v) == Cardinality({p \in Idx \X Idx : b[p[1]][p[2]] = v})

(***************************************************************************)
(* UnifiedAIEngine: constants.                                             *)
(***************************************************************************)
\* JavaScript's Infinity: larger than any score the engine computes
Infinity == 1000000000

\* row r, column c of the table is POSITION_WEIGHTS[r + 1][c + 1]
POSITION_WEIGHTS ==
  << <<500, -150, 30, 10, 10, 30, -150, 500>>,
     <<-150, -250, 0, 0, 0, 0, -250, -150>>,
     <<30, 0, 1, 2, 2, 1, 0, 30>>,
     <<10, 0, 2, 16, 16, 2, 0, 10>>,
     <<10, 0, 2, 16, 16, 2, 0, 10>>,
     <<30, 0, 1, 2, 2, 1, 0, 30>>,
     <<-150, -250, 0, 0, 0, 0, -250, -150>>,
     <<500, -150, 30, 10, 10, 30, -150, 500>> >>

PHASE_THRESHOLDS == [opening |-> 20, midgame |-> 44, endgame |-> 60]

Max(a, b) == IF a >= b THEN a ELSE b
Min(a, b) == IF a <= b THEN a ELSE b

\* what computeMove and _selectMove return when there is no move
NullMove == [null |-> TRUE]

IsNull(m) == "null" \in DOMAIN m

Cell(m) == <<m.r, m.c>>

(***************************************************************************)
(* UnifiedAIEngine: configuration (_normalizeConfig and its helpers).      *)
(* A field a profile does not set is a field the record does not have.     *)
(***************************************************************************)
Has(rec, f) == f \in DOMAIN rec

\* rec.f || d for a number: undefined and 0 both give d
OrNum(rec, f, d) == IF Has(rec, f) /\ rec[f] # 0 THEN rec[f] ELSE d

\* rec.f !== undefined ? rec.f : d
Defined(rec, f, d) == IF Has(rec, f) THEN rec[f] ELSE d

_getDefaultWeights ==
  [opening |-> [mobility |-> 30, position |-> 20, discDiff |-> -10, stability |-> 0, corner |-> 50],
   midgame |-> [mobility |-> 20, position |-> 30, discDiff |-> 10, stability |-> 10, corner |-> 50],
   endgame |-> [mobility |-> 5, position |-> 10, discDiff |-> 100, stability |-> 30, corner |-> 30]]

_convertDepth(oldDepth) ==
  LET mapping == (1 :> 2) @@ (2 :> 3) @@ (3 :> 4) @@ (4 :> 6)
  IN  IF oldDepth \in DOMAIN mapping /\ mapping[oldDepth] # 0
        THEN mapping[oldDepth] ELSE oldDepth + 2

_getEndgameDepthFromOldDepth(oldDepth) ==
  IF oldDepth >= 4 THEN 8 ELSE IF oldDepth >= 3 THEN 4 ELSE 0

\* (a + b) / 2 for an even sum; the dynamic_turn profiles drawn below have even sums
Half(x) == x \div 2

_convertLegacyWeights(config) ==
  LET params == IF Has(config, "parameters") THEN config.parameters ELSE << >>
  IN  IF Has(config, "logicType") /\ config.logicType = "dynamic_turn"
        THEN LET early == IF Has(params, "early") THEN params.early
                          ELSE [mobility |-> 30, position |-> 10, discDiff |-> -5]
                 late == IF Has(params, "late") THEN params.late
                         ELSE [mobility |-> 5, position |-> 20, discDiff |-> 100]
             IN  [opening |-> [mobility |-> early.mobility, position |-> early.position,
                               discDiff |-> early.discDiff, stability |-> 0, corner |-> 50],
                  midgame |-> [mobility |-> Half(early.mobility + late.mobility),
                               position |-> Half(early.position + late.position),
                               discDiff |-> Half(early.discDiff + late.discDiff),
                               stability |-> 10, corner |-> 50],
                  endgame |-> [mobility |-> late.mobility, position |-> late.position,
                               discDiff |-> late.discDiff, stability |-> 20, corner |-> 50]]
        ELSE LET m == Defined(params, "mobility", 30)
                 p == Defined(params, "position", 20)
                 d == Defined(params, "discDiff", 10)
             IN  [opening |-> [mobility |-> m, position |-> p, discDiff |-> d,
                               stability |-> 0, corner |-> 50],
                  midgame |-> [mobility |-> m, position |-> p, discDiff |-> d,
                               stability |-> 10, corner |-> 50],
                  endgame |-> [mobility |-> m, position |-> p, discDiff |-> d,
                               stability |-> 20, corner |-> 50]]

_normalizeConfig(config) ==
  IF Has(config, "ai")
    THEN [maxDepth |-> OrNum(config.ai, "maxDepth", 4),
          timeLimit |-> OrNum(config.ai, "timeLimit", 2000),
          endgameSolverDepth |-> OrNum(config.ai, "endgameSolverDepth", 0),
          randomness |-> Defined(config.ai, "randomness", 0),
          useMoveOrdering |-> Has(config.ai, "useMoveOrdering") /\ config.ai.useMoveOrdering,
          weights |-> IF Has(config.ai, "weights") THEN config.ai.weights
                      ELSE _getDefaultWeights]
    ELSE [maxDepth |-> _convertDepth(OrNum(config, "depth", 4)),
          timeLimit |-> 2000,
          endgameSolverDepth |-> _getEndgameDepthFromOldDepth(OrNum(config, "depth", 4)),
          randomness |-> Defined(config, "randomness", 0),
          useMoveOrdering |-> OrNum(config, "depth", 4) >= 4,
          weights |-> _convertLegacyWeights(config)]

\* this.currentConfig of the call in progress
currentConfig == ai.currentConfig

_getWeights(phase) ==
  IF Has(currentConfig.weights, phase) THEN currentConfig.weights[phase]
  ELSE currentConfig.weights.midgame

_getPhase(currentTurn) ==
  IF currentTurn <= PHASE_THRESHOLDS.opening THEN "opening"
  ELSE IF currentTurn <= PHASE_THRESHOLDS.midgame THEN "midgame"
  ELSE "endgame"

_countEmpty(b) == CountCells(b, 0)

(***************************************************************************)
(* The clock.  _isTimeUp reads Date.now(); a call in progress samples it   *)
(* at a sequence of points, numbered 0, 1, 2, ... (clk is the number of    *)
(* samples taken so far).  ai.deadline is the first sample at which the    *)
(* time limit is found exceeded, -1 when it never is; time does not run    *)
(* backwards, so every later sample finds it exceeded too.                 *)
(***************************************************************************)
_isTimeUp(clk) == ai.deadline >= 0 /\ clk >= ai.deadline

(***************************************************************************)
(* UnifiedAIEngine: evaluation.                                            *)
(***************************************************************************)
_evaluatePosition(b, aiTurn) ==
  LET cell(r, c) ==
        IF b[r][c] = aiTurn THEN POSITION_WEIGHTS[r + 1][c + 1]
        ELSE IF b[r][c] = -aiTurn THEN -POSITION_WEIGHTS[r + 1][c + 1]
        ELSE 0
      row(r) == cell(r, 0) + cell(r, 1) + cell(r, 2) + cell(r, 3)
                + cell(r, 4) + cell(r, 5) + cell(r, 6) + cell(r, 7)
  IN  row(0) + row(1) + row(2) + row(3) + row(4) + row(5) + row(6) + row(7)

_evaluateMobility(b, aiTurn) ==
  Len(getValidMoves(b, aiTurn)) - Len(getValidMoves(b, -aiTurn))

\* the two while loops of _evaluateStability: discs of owner from (r, c) on, in steps of (dr, dc)
RECURSIVE EdgeRun(_, _, _, _, _, _)
EdgeRun(b, r, c, dr, dc, owner) ==
  IF r >= 0 /\ r < 8 /\ c >= 0 /\ c < 8 /\ b[r][c] = owner
    THEN 1 + EdgeRun(b, r + dr, c + dc, dr, dc, owner)
    ELSE 0

\* the corners array of _evaluateStability: r, c, dc[0] (along the row), dr[1] (along the column)
StabilityCorners ==
  << [r |-> 0, c |-> 0, dc0 |-> 1, dr1 |-> 1],
     [r |-> 0, c |-> 7, dc0 |-> -1, dr1 |-> 1],
     [r |-> 7, c |-> 0, dc0 |-> 1, dr1 |-> -1],
     [r |-> 7, c |-> 7, dc0 |-> -1, dr1 |-> -1] >>

_evaluateStability(b, aiTurn) ==
  LET stable(k) ==
        LET corner == StabilityCorners[k]
            owner == b[corner.r][corner.c]
        IN  IF owner = 0 THEN 0
            ELSE 3 + 2 * EdgeRun(b, corner.r, corner.c + corner.dc0, 0, corner.dc0, owner)
                   + 2 * EdgeRun(b, corner.r + corner.dr1, corner.c, corner.dr1, 0, owner)
      mine(k) == IF b[StabilityCorners[k].r][StabilityCorners[k].c] = aiTurn THEN stable(k) ELSE 0
      theirs(k) == IF b[StabilityCorners[k].r][StabilityCorners[k].c] = aiTurn THEN 0 ELSE stable(k)
      myStable == mine(1) + mine(2) + mine(3) + mine(4)
      opStable == theirs(1) + theirs(2) + theirs(3) + theirs(4)
  IN  myStable - opStable

_evaluateFrontier(b, aiTurn) ==
  LET hasEmptyNeighbor(r, c) ==
        \E i \in 1 .. 8 :
          LET nr == r + directions[i][1]
              nc == c + directions[i][2]
          IN  nr >= 0 /\ nr < 8 /\ nc >= 0 /\ nc < 8 /\ b[nr][nc] = 0
      frontier == {p \in Idx \X Idx : b[p[1]][p[2]] # 0 /\ hasEmptyNeighbor(p[1], p[2])}
      myFrontier == Cardinality({p \in frontier : b[p[1]][p[2]] = aiTurn})
      opFrontier == Cardinality({p \in frontier : b[p[1]][p[2]] # aiTurn})
  IN  opFrontier - myFrontier

\* a plausible slip: the difference taken from the opponent's side
_evaluateDiscDiff_Swapped(b, aiTurn) == CountCells(b, -aiTurn) - CountCells(b, aiTurn)

_evaluateDiscDiff(b, aiTurn) == CountCells(b, aiTurn) - CountCells(b, -aiTurn)

_evaluateCorners(b, aiTurn) ==
  LET corner(r, c) == IF b[r][c] = aiTurn THEN 1 ELSE IF b[r][c] = -aiTurn THEN -1 ELSE 0
  IN  corner(0, 0) + corner(0, 7) + corner(7, 0) + corner(7, 7)

_evaluateFinal_Unscaled(b, aiTurn) == _evaluateDiscDiff(b, aiTurn)

_evaluateFinal(b, aiTurn) == _evaluateDiscDiff(b, aiTurn) * 1000

\* weights.f && weights.f > 0
Positive(weights, f) == Has(weights, f) /\ weights[f] # 0 /\ weights[f] > 0

WeightNames == {"mobility", "position", "discDiff", "stability", "corner", "frontier"}

\* the weights of a phase with 0 for each weight it does not set: _evaluate skips the
\* term of an optional weight that is absent as it skips that of a weight of 0
AllWeights(weights) == [f \in WeightNames |-> Defined(weights, f, 0)]

\* the body of _evaluate as a function of the board, the side and the phase's weights
Weights == [WeightNames -> Int]

EvaluationOf[b \in Boards, aiTurn \in Sides, weights \in Weights] ==
      _evaluatePosition(b, aiTurn) * weights.position
      + _evaluateMobility(b, aiTurn) * weights.mobility
      + (IF Positive(weights, "stability")
           THEN _evaluateStability(b, aiTurn) * weights.stability ELSE 0)
      + _evaluateDiscDiff(b, aiTurn) * weights.discDiff
      + (IF Positive(weights, "corner")
           THEN _evaluateCorners(b, aiTurn) * weights.corner ELSE 0)
      + (IF Positive(weights, "frontier")
           THEN _evaluateFrontier(b, aiTurn) * weights.frontier ELSE 0)

_evaluate(b, aiTurn, phase) == EvaluationOf[b, aiTurn, AllWeights(_getWeights(phase))]

(***************************************************************************)
(* UnifiedAIEngine: move ordering and selection.                           *)
(***************************************************************************)
\* Array.prototype.sort with the comparator (a, b) => key(b) - key(a): descending and
\* stable; keys[i] is the key of seq[i]
RECURSIVE InsertDesc(_, _, _)
InsertDesc(sorted, x, i) ==
  IF i > Len(sorted) THEN Append(sorted, x)
  ELSE IF sorted[i].key < x.key
    THEN SubSeq(sorted, 1, i - 1) \o <<x>> \o SubSeq(sorted, i, Len(sorted))
    ELSE InsertDesc(sorted, x, i + 1)

RECURSIVE SortDescFrom(_, _, _)
SortDescFrom(keyed, i, sorted) ==
  IF i > Len(keyed) THEN sorted
  ELSE SortDescFrom(keyed, i + 1, InsertDesc(sorted, keyed[i], 1))

SortDesc(seq, keys) ==
  LET keyed == [i \in 1 .. Len(seq) |-> [key |-> keys[i], item |-> seq[i]]]
      sorted == SortDescFrom(keyed, 1, << >>)
  IN  [i \in 1 .. Len(sorted) |-> sorted[i].item]

Priority(move) ==
  (IF (move.r = 0 \/ move.r = 7) /\ (move.c = 0 \/ move.c = 7) THEN 10000
   ELSE IF (move.r = 1 \/ move.r = 6) /\ (move.c = 1 \/ move.c = 6) THEN -5000
   ELSE IF \/ (move.r = 0 \/ move.r = 7) /\ (move.c = 1 \/ move.c = 6)
           \/ (move.r = 1 \/ move.r = 6) /\ (move.c = 0 \/ move.c = 7) THEN -3000
   ELSE 0)
  + POSITION_WEIGHTS[move.r + 1][move.c + 1]

_orderMoves(moves) ==
  LET scored == [i \in 1 .. Len(moves) |-> moves[i] @@ [priority |-> Priority(moves[i])]]
  IN  SortDesc(scored, [i \in 1 .. Len(scored) |-> scored[i].priority])

\* the sort of the scored root candidates
SortByScore_Ascending(scoredMoves) ==
  SortDesc(scoredMoves, [i \in 1 .. Len(scoredMoves) |-> -scoredMoves[i].score])

SortByScore(scoredMoves) ==
  SortDesc(scoredMoves, [i \in 1 .. Len(scoredMoves) |-> scoredMoves[i].score])

\* the values Math.floor(Math.random() * (topN + 1)) can take in _selectMove
SelectIndexes(scoredMoves) ==
  LET randomness == currentConfig.randomness
      topN == Min(randomness, Len(scoredMoves) - 1)
  IN  0 .. topN

\* _selectMove, with the index the random draw gave
_selectMove(scoredMoves, index) ==
  IF Len(scoredMoves) = 0 THEN NullMove ELSE scoredMoves[index + 1]

(***************************************************************************)
(* UnifiedAIEngine: search.  Every search operator takes the number of     *)
(* clock samples taken so far and returns it with its value.               *)
(***************************************************************************)
RECURSIVE _negamax(_, _, _, _, _, _, _, _)
RECURSIVE NegamaxLoop(_, _, _, _, _, _, _, _, _, _, _)

\* alpha raised in the minimizing loop too
NegamaxLoop_OneWindow(b, orderedMoves, i, depth, alpha, beta, isMaximizing, best, aiTurn, phase, clk) ==
  IF i > Len(orderedMoves) THEN [val |-> best, clk |-> clk]
  ELSE LET turnOwner == IF isMaximizing THEN aiTurn ELSE -aiTurn
           move == orderedMoves[i]
           nextBoard == simulateMove(b, move.r, move.c, turnOwner)
           res == _negamax(nextBoard, depth - 1, alpha, beta, ~isMaximizing, aiTurn, phase, clk)
           evalVal == res.val
           newBest == IF isMaximizing THEN Max(best, evalVal) ELSE Min(best, evalVal)
           newAlpha == Max(alpha, evalVal)
           newBeta == IF isMaximizing THEN beta ELSE Min(beta, evalVal)
       IN  IF newBeta <= newAlpha THEN [val |-> newBest, clk |-> res.clk]
           ELSE NegamaxLoop(b, orderedMoves, i + 1, depth, newAlpha, newBeta, isMaximizing,
                            newBest, aiTurn, phase, res.clk)

\* the for loops of _negamax over orderedMoves, from the i-th move on
NegamaxLoop(b, orderedMoves, i, depth, alpha, beta, isMaximizing, best, aiTurn, phase, clk) ==
  IF i > Len(orderedMoves) THEN [val |-> best, clk |-> clk]
  ELSE LET turnOwner == IF isMaximizing THEN aiTurn ELSE -aiTurn
           move == orderedMoves[i]
           nextBoard == simulateMove(b, move.r, move.c, turnOwner)
           res == _negamax(nextBoard, depth - 1, alpha, beta, ~isMaximizing, aiTurn, phase, clk)
           evalVal == res.val
           newBest == IF isMaximizing THEN Max(best, evalVal) ELSE Min(best, evalVal)
           newAlpha == IF isMaximizing THEN Max(alpha, evalVal) ELSE alpha
           newBeta == IF isMaximizing THEN beta ELSE Min(beta, evalVal)
       IN  IF newBeta <= newAlpha THEN [val |-> newBest, clk |-> res.clk]
           ELSE NegamaxLoop(b, orderedMoves, i + 1, depth, newAlpha, newBeta, isMaximizing,
                            newBest, aiTurn, phase, res.clk)

\* the pass branch without depth - 1
_negamax_PassKeepsDepth(b, depth, alpha, beta, isMaximizing, aiTurn, phase, clk) ==
  IF depth = 0 THEN [val |-> _evaluate(b, aiTurn, phase), clk |-> clk]
  ELSE IF _isTimeUp(clk) THEN [val |-> _evaluate(b, aiTurn, phase), clk |-> clk + 1]
  ELSE
    LET turnOwner == IF isMaximizing THEN aiTurn ELSE -aiTurn
        validMoves == getValidMoves(b, turnOwner)
    IN  IF Len(validMoves) = 0
          THEN IF Len(getValidMoves(b, -turnOwner)) = 0
                 THEN [val |-> _evaluateFinal(b, aiTurn), clk |-> clk + 1]
                 ELSE _negamax(b, depth, alpha, beta, ~isMaximizing, aiTurn, phase, clk + 1)
          ELSE LET orderedMoves == IF currentConfig.useMoveOrdering /\ depth >= 2
                                     THEN _orderMoves(validMoves) ELSE validMoves
               IN  NegamaxLoop(b, orderedMoves, 1, depth, alpha, beta, isMaximizing,
                               IF isMaximizing THEN -Infinity ELSE Infinity,
                               aiTurn, phase, clk + 1)

_negamax(b, depth, alpha, beta, isMaximizing, aiTurn, phase, clk) ==
  IF depth = 0 THEN [val |-> _evaluate(b, aiTurn, phase), clk |-> clk]
  ELSE IF _isTimeUp(clk) THEN [val |-> _evaluate(b, aiTurn, phase), clk |-> clk + 1]
  ELSE
    LET turnOwner == IF isMaximizing THEN aiTurn ELSE -aiTurn
        validMoves == getValidMoves(b, turnOwner)
    IN  IF Len(validMoves) = 0
          THEN IF Len(getValidMoves(b, -turnOwner)) = 0
                 THEN [val |-> _evaluateFinal(b, aiTurn), clk |-> clk + 1]
                 ELSE _negamax(b, depth - 1, alpha, beta, ~isMaximizing, aiTurn, phase, clk + 1)
          ELSE LET orderedMoves == IF currentConfig.useMoveOrdering /\ depth >= 2
                                     THEN _orderMoves(validMoves) ELSE validMoves
               IN  NegamaxLoop(b, orderedMoves, 1, depth, alpha, beta, isMaximizing,
                               IF isMaximizing THEN -Infinity ELSE Infinity,
                               aiTurn, phase, clk + 1)

\* the for loop of _searchAtDepth over orderedMoves, from the i-th move on
RECURSIVE SearchLoop(_, _, _, _, _, _, _, _)
SearchLoop(b, t, orderedMoves, i, depth, phase, scoredMoves, clk) ==
  IF i > Len(orderedMoves)
    THEN [timeout |-> FALSE, scoredMoves |-> SortByScore(scoredMoves), clk |-> clk]
  ELSE IF _isTimeUp(clk)
    THEN [timeout |-> TRUE, scoredMoves |-> scoredMoves, clk |-> clk + 1]
  ELSE LET move == orderedMoves[i]
           nextBoard == simulateMove(b, move.r, move.c, t)
           res == _negamax(nextBoard, depth - 1, -Infinity, Infinity, FALSE, t, phase, clk + 1)
       IN  SearchLoop(b, t, orderedMoves, i + 1, depth, phase,
                      Append(scoredMoves, move @@ [score |-> res.val]), res.clk)

\* the order in which _searchAtDepth scores the root candidates
RootOrder(validMoves) ==
  IF currentConfig.useMoveOrdering THEN _orderMoves(validMoves) ELSE validMoves

\* timeout: the search threw Error('TIMEOUT')
_searchAtDepth(b, t, validMoves, depth, phase, clk) ==
  SearchLoop(b, t, RootOrder(validMoves), 1, depth, phase, << >>, clk)

RECURSIVE _negamaxEndgame(_, _, _, _, _, _)
RECURSIVE EndgameLoop(_, _, _, _, _, _, _, _, _)

\* the for loops of _negamaxEndgame over orderedMoves, from the i-th move on
EndgameLoop(b, orderedMoves, i, alpha, beta, isMaximizing, best, aiTurn, clk) ==
  IF i > Len(orderedMoves) THEN [val |-> best, clk |-> clk]
  ELSE IF _isTimeUp(clk) THEN [val |-> best, clk |-> clk + 1]
  ELSE LET turnOwner == IF isMaximizing THEN aiTurn ELSE -aiTurn
           move == orderedMoves[i]
           nextBoard == simulateMove(b, move.r, move.c, turnOwner)
           res == _negamaxEndgame(nextBoard, alpha, beta, ~isMaximizing, aiTurn, clk + 1)
           evalVal == res.val
           newBest == IF isMaximizing THEN Max(best, evalVal) ELSE Min(best, evalVal)
           newAlpha == IF isMaximizing THEN Max(alpha, evalVal) ELSE alpha
           newBeta == IF isMaximizing THEN beta ELSE Min(beta, evalVal)
       IN  IF newBeta <= newAlpha THEN [val |-> newBest, clk |-> res.clk]
           ELSE EndgameLoop(b, orderedMoves, i + 1, newAlpha, newBeta, isMaximizing,
                            newBest, aiTurn, res.clk)

_negamaxEndgame(b, alpha, beta, isMaximizing, aiTurn, clk) ==
  LET turnOwner == IF isMaximizing THEN aiTurn ELSE -aiTurn
      validMoves == getValidMoves(b, turnOwner)
  IN  IF Len(validMoves) = 0
        THEN IF Len(getValidMoves(b, -turnOwner)) = 0
               THEN [val |-> _evaluateFinal(b, aiTurn), clk |-> clk]
               ELSE _negamaxEndgame(b, alpha, beta, ~isMaximizing, aiTurn, clk)
        ELSE EndgameLoop(b, _orderMoves(validMoves), 1, alpha, beta, isMaximizing,
                         IF isMaximizing THEN -Infinity ELSE Infinity, aiTurn, clk)

(***************************************************************************)
(* GameCore: the instance and its methods.                                 *)
(***************************************************************************)
\* the history of a call; r and c are kept for the moves that were made
Call(op, r, c, t, ret) == [op |-> op, r |-> r, c |-> c, t |-> t, ret |-> ret, before |-> board]

NoCall == [op |-> "new", r |-> 0, c |-> 0, t |-> 0, ret |-> FALSE, before |-> StartBoard]

\* no computeMove call in progress (the engine as its constructor leaves it)
NoSearch == [pc |-> "idle"]

Init ==
  /\ board = StartBoard
  /\ turn = 1
  /\ gameEnded = FALSE
  /\ placed = 0
  /\ last = NoCall
  /\ ai = NoSearch

\* a plausible slip: gameEnded is not cleared
reset_KeepsEnded ==
  /\ board' = StartBoard
  /\ turn' = 1
  /\ placed' = 0
  /\ last' = NoCall
  /\ UNCHANGED <<gameEnded, ai>>

reset ==
  /\ board' = StartBoard
  /\ turn' = 1
  /\ gameEnded' = FALSE
  /\ placed' = 0
  /\ last' = NoCall
  /\ UNCHANGED ai

\* makeMove(r, c, t) with any cell and any side, legal or not
makeMove(r, c, t) ==
  \E ok \in {canPlace(board, r, c, t)} :
      /\ ok => placed < MaxMoves
      /\ board' = IF ok THEN makeMoveBoard(board, r, c, t) ELSE board
      /\ placed' = IF ok THEN placed + 1 ELSE placed
      /\ last' = IF ok THEN Call("makeMove", r, c, t, TRUE) ELSE Call("makeMove", 0, 0, 0, FALSE)
      /\ UNCHANGED <<turn, gameEnded, ai>>

switchTurn ==
  /\ turn' = turn * (-1)
  /\ last' = Call("switchTurn", 0, 0, 0, TRUE)
  /\ UNCHANGED <<board, gameEnded, placed, ai>>

checkGameState ==
  \E p1Moves \in {hasValidMove(board, 1)}, p2Moves \in {hasValidMove(board, -1)} :
      /\ gameEnded' = IF ~p1Moves /\ ~p2Moves THEN TRUE ELSE gameEnded
      /\ last' = Call("checkGameState", 0, 0, 0, gameEnded')
      /\ UNCHANGED <<board, turn, placed, ai>>

Next ==
  \/ reset
  \/ \E r \in Idx, c \in Idx, t \in Sides : makeMove(r, c, t)
  \/ switchTurn
  \/ checkGameState

Spec == Init /\ [][Next]_vars

(***************************************************************************)
(* A game as the rules have it played (the sequencing that                 *)
(* src/dev/report/report.md aims at): the side to move places a disc on a  *)
(* legal cell                                                              *)
(* (makeMove, switchTurn, checkGameState), and passes (switchTurn) only    *)
(* when it has no legal cell and the game is not over.  The first          *)
(* FreePlies placements go to any legal cell; after them each side follows *)
(* its policy, the first or the last legal cell in scan order.             *)
(***************************************************************************)
Styles == {"first", "last"}
Policies == [Sides -> Styles]

PolicyMove(moves, style) == IF style = "first" THEN moves[1] ELSE moves[Len(moves)]

BothStuck(b) == ~hasValidMove(b, 1) /\ ~hasValidMove(b, -1)

PlayInit ==
  /\ board = StartBoard
  /\ turn = 1
  /\ gameEnded = FALSE
  /\ placed = 0
  /\ last = NoCall
  /\ ai \in {[pc |-> "play", policy |-> pol] : pol \in Policies}

\* the cells the side to move may choose
Choices(moves) ==
  IF placed >= FreePlies THEN {PolicyMove(moves, ai.policy[turn])}
  ELSE {moves[i] : i \in 1 .. Len(moves)}

Place ==
  /\ ~gameEnded
  /\ \E moves \in {getValidMoves(board, turn)} :
         /\ Len(moves) > 0
         /\ \E move \in Choices(moves) :
              /\ board' = makeMoveBoard(board, move.r, move.c, turn)
              /\ last' = Call("makeMove", move.r, move.c, turn, TRUE)
  /\ turn' = turn * (-1)
  /\ gameEnded' = BothStuck(board')
  /\ placed' = placed + 1
  /\ UNCHANGED ai

Pass ==
  /\ ~gameEnded
  /\ ~hasValidMove(board, turn)
  /\ hasValidMove(board, -turn)
  /\ turn' = turn * (-1)
  /\ last' = Call("switchTurn", 0, 0, 0, TRUE)
  /\ UNCHANGED <<board, gameEnded, placed, ai>>

PlayNext == Place \/ Pass

PlaySpec == PlayInit /\ [][PlayNext]_vars /\ WF_vars(PlayNext)

(***************************************************************************)
(* computeMove.  The call is modelled in steps: its entry (computeMove up  *)
(* to the choice of the search mode), one step per iteration of the loop   *)
(* of _iterativeDeepening or of _perfectEndgame, and the return.           *)
(***************************************************************************)
\* the position of the game in which each side follows its policy, after n placements
RECURSIVE PolicyGame(_, _, _, _)
PolicyGame(b, t, policy, n) ==
  IF n = 0 \/ BothStuck(b) THEN b
  ELSE LET moves == getValidMoves(b, t)
       IN  IF Len(moves) = 0 THEN PolicyGame(b, -t, policy, n)
           ELSE LET move == PolicyMove(moves, policy[t])
                IN  PolicyGame(makeMoveBoard(b, move.r, move.c, t), -t, policy, n - 1)

\* the boards handed to computeMove
EngineBoards ==
  {PolicyGame(StartBoard, 1, pol, n) :
     pol \in Policies, n \in (0 .. MaxOpeningPly) \cup ((60 - MaxEmpty) .. 58)}

\* the profiles handed to computeMove: depth 2, without and with the endgame solver,
\* move ordering and randomness; the weights are the engine's defaults
Profile(endgameSolverDepth, randomness, useMoveOrdering) ==
  [ai |-> [maxDepth |-> 2, timeLimit |-> 2000, endgameSolverDepth |-> endgameSolverDepth,
           randomness |-> randomness, useMoveOrdering |-> useMoveOrdering]]

Profiles ==
  {Profile(e, k, o) : e \in {0, 4}, k \in {0, 1}, o \in BOOLEAN}

Deadlines == -1 .. MaxDeadline

\* the engine before computeMove is called with config; deadline is the call's timing
Idle(config, deadline) ==
  [pc |-> "idle", config |-> config, deadline |-> deadline, clk |-> 0,
   currentConfig |-> << >>, phase |-> "", validMoves |-> << >>,
   depth |-> 0, bestMove |-> NullMove, scoredMoves |-> << >>, lastCompletedDepth |-> 0,
   orderedMoves |-> << >>, i |-> 0, result |-> NullMove,
   \* history: the search mode; the bestMove of the last depth searched with no clock
   \* sample past the limit; the root candidates whose endgame search met such a
   \* sample; the sorted list _selectMove last chose from
   mode |-> "", cleanBest |-> NullMove, cut |-> {}, ranking |-> << >>]

EngineInit ==
  /\ board \in EngineBoards
  /\ turn \in Sides
  /\ gameEnded = FALSE
  /\ placed = 0
  /\ last = NoCall
  /\ ai \in {Idle(config, deadline) : config \in Profiles, deadline \in Deadlines}

\* computeMove, up to the call of _perfectEndgame or _iterativeDeepening
computeMove ==
  /\ ai.pc = "idle"
  /\ \E validMoves \in {getValidMoves(board, turn)} :
     LET normalized == _normalizeConfig(ai.config)
         emptyCount == _countEmpty(board)
         currentTurn == 64 - emptyCount - 4 + 1
         started == [ai EXCEPT !.clk = 0, !.currentConfig = normalized,
                               !.phase = _getPhase(currentTurn), !.validMoves = validMoves]
     IN  ai' =
           IF Len(validMoves) = 0 THEN [started EXCEPT !.pc = "done", !.result = NullMove]
           ELSE IF Len(validMoves) = 1
             THEN [started EXCEPT !.pc = "done", !.result = validMoves[1]]
           ELSE IF normalized.endgameSolverDepth > 0
                   /\ emptyCount <= normalized.endgameSolverDepth
             THEN [started EXCEPT !.pc = "endgame", !.mode = "endgame", !.scoredMoves = << >>,
                                  !.orderedMoves = _orderMoves(validMoves), !.i = 1]
           ELSE [started EXCEPT !.pc = "iterative", !.mode = "iterative",
                                !.bestMove = validMoves[1],
                                !.scoredMoves = << >>, !.lastCompletedDepth = 0, !.depth = 1,
                                !.cleanBest = validMoves[1]]
  /\ UNCHANGED <<board, turn, gameEnded, placed, last>>

\* a sample of the clock taken before clk found the time limit exceeded
Expired(clk) == ai.deadline >= 0 /\ clk > ai.deadline

\* one iteration of the loop of _iterativeDeepening: _searchAtDepth scores every root
\* candidate and _selectMove chooses bestMove, or throws TIMEOUT and the loop is left
IterativeDepth ==
  /\ ai.pc = "iterative"
  /\ ai.depth <= ai.currentConfig.maxDepth
  /\ ~_isTimeUp(ai.clk)
  /\ \E search \in {_searchAtDepth(board, turn, ai.validMoves, ai.depth, ai.phase, ai.clk + 1)} :
         IF search.timeout
           THEN ai' = [ai EXCEPT !.pc = "done", !.result = ai.bestMove, !.clk = search.clk]
           ELSE \E index \in SelectIndexes(search.scoredMoves) :
                  LET bestMove == _selectMove(search.scoredMoves, index)
                  IN  ai' = [ai EXCEPT !.scoredMoves = search.scoredMoves,
                                       !.bestMove = bestMove,
                                       !.lastCompletedDepth = ai.depth,
                                       !.depth = ai.depth + 1,
                                       !.clk = search.clk,
                                       !.ranking = search.scoredMoves,
                                       !.cleanBest = IF Expired(search.clk) THEN ai.cleanBest
                                                     ELSE bestMove]
  /\ UNCHANGED <<board, turn, gameEnded, placed, last>>

\* the loop of _iterativeDeepening ends: maxDepth is passed, or the time is up at the
\* top of the loop; bestMove is returned
IterativeReturn ==
  /\ ai.pc = "iterative"
  /\ ai.depth > ai.currentConfig.maxDepth \/ _isTimeUp(ai.clk)
  /\ ai' = [ai EXCEPT !.pc = "done", !.result = ai.bestMove,
                      !.clk = IF ai.depth > ai.currentConfig.maxDepth THEN ai.clk
                              ELSE ai.clk + 1]
  /\ UNCHANGED <<board, turn, gameEnded, placed, last>>

\* one iteration of the loop of _perfectEndgame that scores a root candidate
EndgameCandidate ==
  /\ ai.pc = "endgame"
  /\ ai.i <= Len(ai.orderedMoves)
  /\ ~_isTimeUp(ai.clk)
  /\ \E move \in {ai.orderedMoves[ai.i]} :
       \E res \in {_negamaxEndgame(simulateMove(board, move.r, move.c, turn),
                                   -Infinity, Infinity, FALSE, turn, ai.clk + 1)} :
         ai' = [ai EXCEPT !.scoredMoves = Append(ai.scoredMoves, move @@ [score |-> res.val]),
                          !.i = ai.i + 1,
                          !.clk = res.clk,
                          !.cut = IF Expired(res.clk) THEN ai.cut \cup {Cell(move)} ELSE ai.cut]
  /\ UNCHANGED <<board, turn, gameEnded, placed, last>>

\* the loop of _perfectEndgame ends: every candidate is scored, or the time is up;
\* the scored candidates are sorted and _selectMove's choice is returned
EndgameReturn ==
  /\ ai.pc = "endgame"
  /\ ai.i > Len(ai.orderedMoves) \/ _isTimeUp(ai.clk)
  /\ \E scoredMoves \in {SortByScore(ai.scoredMoves)} :
     LET clk == IF ai.i > Len(ai.orderedMoves) THEN ai.clk ELSE ai.clk + 1
     IN  IF Len(scoredMoves) = 0
           THEN ai' = [ai EXCEPT !.pc = "done", !.clk = clk, !.scoredMoves = scoredMoves,
                                 !.ranking = scoredMoves, !.result = NullMove]
           ELSE \E index \in SelectIndexes(scoredMoves) :
                  ai' = [ai EXCEPT !.pc = "done", !.clk = clk, !.scoredMoves = scoredMoves,
                                   !.ranking = scoredMoves,
                                   !.result = _selectMove(scoredMoves, index)]
  /\ UNCHANGED <<board, turn, gameEnded, placed, last>>

EngineNext ==
  \/ computeMove
  \/ IterativeDepth
  \/ IterativeReturn
  \/ EndgameCandidate
  \/ EndgameReturn

EngineSpec == EngineInit /\ [][EngineNext]_vars

(***************************************************************************)
(* computeMove and the board objects.  A board is an array of 8 row        *)
(* arrays: heap maps the address of a row array to its cells, and a board  *)
(* object is the 8 addresses of its rows.  The search is followed node by  *)
(* node with its call stack; the values it computes are left out, so a     *)
(* node's loop may end after any number of children (a cut-off, or the     *)
(* time limit).  Rows no frame can reach any more are dropped.             *)
(***************************************************************************)
RowAddrs(obj) == {obj[r] : r \in Idx}

Deref(heap, obj) == [r \in Idx |-> heap[obj[r]]]

Top(heap) ==
  IF DOMAIN heap = {} THEN 0 ELSE CHOOSE a \in DOMAIN heap : \A x \in DOMAIN heap : x <= a

\* board.slice(): a new outer array over the same row arrays
cloneBoard_Shallow(heap, obj) == [heap |-> heap, obj |-> obj]

\* board.map(row => [...row]): a new outer array of new row arrays
cloneBoard(heap, obj) ==
  LET base == Top(heap)
      fresh == [r \in Idx |-> base + r + 1]
  IN  [heap |-> [a \in DOMAIN heap \cup RowAddrs(fresh) |->
                   IF a \in DOMAIN heap THEN heap[a] ELSE heap[obj[a - base - 1]]],
       obj |-> fresh]

\* simulateMove on objects: the clone, then the writes newBoard[..][..] = turn
SimulateOnHeap(heap, obj, r, c, t) ==
  LET clone == cloneBoard(heap, obj)
      after == simulateMove(Deref(heap, obj), r, c, t)
  IN  [heap |-> [a \in DOMAIN clone.heap |->
                   IF a \in RowAddrs(clone.obj)
                     THEN after[CHOOSE row \in Idx : clone.obj[row] = a]
                     ELSE clone.heap[a]],
       obj |-> clone.obj]

\* the frame of a call of _negamax or _negamaxEndgame on obj: the moves its loop runs
\* over (none at remaining depth 0, at a pass and at the end of the game)
Frame(heap, obj, turnOwner, depth) ==
  LET b == Deref(heap, obj)
      validMoves == getValidMoves(b, turnOwner)
      leaf == ai.mode = "iterative" /\ depth = 0
      ordered == IF ai.mode = "endgame" \/ (currentConfig.useMoveOrdering /\ depth >= 2)
                   THEN _orderMoves(validMoves) ELSE validMoves
  IN  [obj |-> obj, turnOwner |-> turnOwner, depth |-> depth,
       moves |-> IF leaf THEN << >> ELSE ordered, i |-> 1,
       pass |-> ~leaf /\ Len(validMoves) = 0 /\ Len(getValidMoves(b, -turnOwner)) > 0]

\* the frame of _searchAtDepth or of _perfectEndgame on the board computeMove was given
RootFrame(depth) ==
  [obj |-> ai.input, turnOwner |-> turn, depth |-> depth,
   moves |-> IF ai.mode = "endgame" THEN _orderMoves(getValidMoves(board, turn))
             ELSE RootOrder(getValidMoves(board, turn)),
   i |-> 1, pass |-> FALSE]

Reachable(stack, input) == RowAddrs(input) \cup UNION {RowAddrs(stack[k].obj) : k \in 1 .. Len(stack)}

Collect(heap, stack, input) == [a \in DOMAIN heap \cap Reachable(stack, input) |-> heap[a]]

MemoryInit ==
  /\ board \in EngineBoards
  /\ turn \in Sides
  /\ gameEnded = FALSE
  /\ placed = 0
  /\ last = NoCall
  /\ \E config \in Profiles :
       ai = [pc |-> "idle", config |-> config, currentConfig |-> << >>, mode |-> "",
             depth |-> 0,
             heap |-> [a \in 1 .. 8 |-> board[a - 1]], input |-> [r \in Idx |-> r + 1],
             stack |-> << >>]

\* computeMove up to the choice of the search mode
Enter ==
  /\ ai.pc = "idle"
  /\ \E validMoves \in {getValidMoves(Deref(ai.heap, ai.input), turn)} :
     LET normalized == _normalizeConfig(ai.config)
         emptyCount == _countEmpty(Deref(ai.heap, ai.input))
     IN  ai' =
           IF Len(validMoves) <= 1 THEN [ai EXCEPT !.pc = "done", !.currentConfig = normalized]
           ELSE IF normalized.endgameSolverDepth > 0
                   /\ emptyCount <= normalized.endgameSolverDepth
             THEN [ai EXCEPT !.pc = "loop", !.currentConfig = normalized, !.mode = "endgame"]
           ELSE [ai EXCEPT !.pc = "loop", !.currentConfig = normalized, !.mode = "iterative",
                           !.depth = 1]
  /\ UNCHANGED <<board, turn, gameEnded, placed, last>>

\* the call of _perfectEndgame, or of _searchAtDepth for the next depth
StartSearch ==
  /\ ai.pc = "loop"
  /\ ai.mode = "iterative" => ai.depth <= ai.currentConfig.maxDepth
  /\ ai' = [ai EXCEPT !.pc = "search", !.stack = <<RootFrame(ai.depth)>>]
  /\ UNCHANGED <<board, turn, gameEnded, placed, last>>

\* one iteration of a node's loop: simulateMove and the recursive call
Expand ==
  /\ ai.pc = "search"
  /\ \E n \in {Len(ai.stack)} : \E top \in {ai.stack[n]} :
       /\ top.i <= Len(top.moves)
       /\ \E sim \in {SimulateOnHeap(ai.heap, top.obj, top.moves[top.i].r, top.moves[top.i].c,
                                      top.turnOwner)} :
            ai' = [ai EXCEPT !.heap = sim.heap,
                             !.stack = Append([ai.stack EXCEPT ![n].i = top.i + 1],
                                              Frame(sim.heap, sim.obj, -top.turnOwner,
                                                    IF ai.mode = "endgame" THEN top.depth
                                                    ELSE top.depth - 1))]
  /\ UNCHANGED <<board, turn, gameEnded, placed, last>>

\* the pass branch: the recursive call on the same board object
PassOn ==
  /\ ai.pc = "search"
  /\ \E n \in {Len(ai.stack)} : \E top \in {ai.stack[n]} :
       /\ top.pass /\ top.i = 1
       /\ ai' = [ai EXCEPT !.stack = Append([ai.stack EXCEPT ![n].i = 2],
                                            Frame(ai.heap, top.obj, -top.turnOwner,
                                                  IF ai.mode = "endgame" THEN top.depth
                                                  ELSE top.depth - 1))]
  /\ UNCHANGED <<board, turn, gameEnded, placed, last>>

\* a node returns: at a leaf, at the end of the game, after its pass, at the end of its
\* loop, at a cut-off or when the time is up; the root's return ends the depth, or the
\* search when it threw TIMEOUT
Leave ==
  /\ ai.pc = "search"
  /\ \E n \in {Len(ai.stack)} : \E top \in {ai.stack[n]} :
       /\ ~(ai.mode = "endgame" /\ top.pass /\ top.i = 1)
       /\ \E stack \in {SubSeq(ai.stack, 1, n - 1)} :
          \E pc \in IF n > 1 THEN {"search"}
                     ELSE IF ai.mode = "endgame" THEN {"done"} ELSE {"loop", "done"} :
            ai' = [ai EXCEPT !.stack = stack, !.heap = Collect(ai.heap, stack, ai.input),
                             !.pc = pc,
                             !.depth = IF pc = "loop" THEN ai.depth + 1 ELSE ai.depth]
  /\ UNCHANGED <<board, turn, gameEnded, placed, last>>

\* _iterativeDeepening returns: every depth is done, or the time is up
Return ==
  /\ ai.pc = "loop" /\ ai.mode = "iterative"
  /\ ai' = [ai EXCEPT !.pc = "done"]
  /\ UNCHANGED <<board, turn, gameEnded, placed, last>>

MemoryNext ==
  \/ Enter
  \/ StartSearch
  \/ Expand
  \/ PassOn
  \/ Leave
  \/ Return

MemorySpec == MemoryInit /\ [][MemoryNext]_vars

(***************************************************************************)
(* The worker (ai_worker.js).  Messages are handled one at a time: the     *)
(* handler awaits only promises of its own call, so it posts its response  *)
(* before the next message event is dispatched.  posted is what the worker *)
(* has posted to the host; postedFor[i] is the index of the request        *)
(* during whose handling posted[i] was posted (0 for READY).               *)
(***************************************************************************)
MaxRequests == 2

RequestIds == {1, 2}

NullConfig == [null |-> TRUE]

\* the messages the host sends: a well-formed request, one whose board is null and
\* one whose config is null
Requests ==
  {[board |-> b, turn |-> 1, config |-> c, requestId |-> id] :
     b \in {StartBoard, NullBoard}, c \in {Profile(0, 0, FALSE), NullConfig}, id \in RequestIds}
  \ {r \in [board : {NullBoard}, turn : {1}, config : {NullConfig}, requestId : RequestIds] : TRUE}

\* computeMove throws a TypeError: config.ai of null, board[r][c] of null
Throws(request) == request.config = NullConfig \/ request.board = NullBoard

\* the ways await ai.computeMove(board, turn, config) can end: it throws, or it returns
\* a legal move or null
Outcomes(request) ==
  IF Throws(request)
    THEN {[threw |-> TRUE,
           message |-> IF request.config = NullConfig THEN "config is null" ELSE "board is null"]}
  ELSE LET validMoves == getValidMoves(request.board, request.turn)
       IN  {[threw |-> FALSE, move |-> m] :
              m \in {NullMove} \cup {validMoves[i] : i \in 1 .. Len(validMoves)}}

\* a handler that posts RESULT from its catch block too
Respond_Result(request, outcome) ==
  [type |-> "RESULT", move |-> IF outcome.threw THEN NullMove ELSE outcome.move,
   requestId |-> request.requestId]

\* the message the handler posts
Respond(request, outcome) ==
  IF outcome.threw
    THEN [type |-> "ERROR", error |-> outcome.message, requestId |-> request.requestId]
  ELSE [type |-> "RESULT", move |-> outcome.move, requestId |-> request.requestId]

WorkerInit ==
  /\ board = StartBoard
  /\ turn = 1
  /\ gameEnded = FALSE
  /\ placed = 0
  /\ last = NoCall
  /\ ai = [pc |-> "worker", requests |-> << >>, handled |-> 0,
           posted |-> <<[type |-> "READY"]>>, postedFor |-> <<0>>]

\* the host posts a request to the worker
postRequest ==
  /\ Len(ai.requests) < MaxRequests
  /\ \E request \in Requests : ai' = [ai EXCEPT !.requests = Append(ai.requests, request)]
  /\ UNCHANGED <<board, turn, gameEnded, placed, last>>

\* self.onmessage for the oldest request not handled yet
onmessage ==
  /\ ai.handled < Len(ai.requests)
  /\ \E request \in {ai.requests[ai.handled + 1]} : \E outcome \in Outcomes(request) :
       ai' = [ai EXCEPT !.handled = ai.handled + 1,
                        !.posted = Append(ai.posted, Respond(request, outcome)),
                        !.postedFor = Append(ai.postedFor, ai.handled + 1)]
  /\ UNCHANGED <<board, turn, gameEnded, placed, last>>

WorkerNext ==
  \/ postRequest
  \/ onmessage

WorkerSpec == WorkerInit /\ [][WorkerNext]_vars /\ WF_vars(onmessage)

(***************************************************************************)
(* Config normalization on its own: a profile is normalized, and the       *)
(* result is normalized again.                                             *)
(***************************************************************************)
MaxLegacyDepth == 6

\* legacy (flat) profiles: depth absent or 0 .. MaxLegacyDepth, randomness absent, 0 or
\* 3, static with the parameters of "saki" or none, dynamic_turn with those of "shiina"
LegacyProfiles ==
  LET logic == {[logicType |-> "static"],
                [logicType |-> "static",
                 parameters |-> [mobility |-> 2, position |-> 40, discDiff |-> 20]],
                [logicType |-> "dynamic_turn",
                 parameters |-> [early |-> [mobility |-> 10, position |-> 100, discDiff |-> -30],
                                 late |-> [mobility |-> 2, position |-> 50, discDiff |-> 100]]]}
      depths == {<< >>} \cup {[depth |-> d] : d \in 0 .. MaxLegacyDepth}
      randoms == {<< >>, [randomness |-> 0], [randomness |-> 3]}
  IN  {l @@ d @@ r : l \in logic, d \in depths, r \in randoms}

\* modern profiles: the ones of the search, and ones that leave fields out
ModernProfiles ==
  Profiles \cup {[ai |-> [maxDepth |-> 3]],
                 [ai |-> [maxDepth |-> 6, endgameSolverDepth |-> 8, useMoveOrdering |-> TRUE]],
                 [ai |-> [randomness |-> 1, weights |-> _getDefaultWeights]]}

ConfigInit ==
  /\ board = StartBoard
  /\ turn = 1
  /\ gameEnded = FALSE
  /\ placed = 0
  /\ last = NoCall
  /\ \E config \in LegacyProfiles \cup ModernProfiles :
       ai = [pc |-> "config", config |-> config, calls |-> 0, once |-> << >>, twice |-> << >>]

\* this.currentConfig = this._normalizeConfig(config)
Normalize ==
  /\ ai.pc = "config" /\ ai.calls = 0
  /\ ai' = [ai EXCEPT !.calls = 1, !.once = _normalizeConfig(ai.config)]
  /\ UNCHANGED <<board, turn, gameEnded, placed, last>>

\* _normalizeConfig applied to a normalized config
Renormalize ==
  /\ ai.pc = "config" /\ ai.calls = 1
  /\ ai' = [ai EXCEPT !.calls = 2, !.twice = _normalizeConfig(ai.once)]
  /\ UNCHANGED <<board, turn, gameEnded, placed, last>>

ConfigNext ==
  \/ Normalize
  \/ Renormalize

ConfigSpec == ConfigInit /\ [][ConfigNext]_vars

(***************************************************************************)
(* One node of the search: _negamax, or _negamaxEndgame, called with the   *)
(* window (-Infinity, Infinity) on a position, as _searchAtDepth and       *)
(* _perfectEndgame call them for a root candidate.  turn is aiTurn.        *)
(***************************************************************************)
MaxNodeDepth == 3
MaxNodeDeadline == 1

\* the positions in which the games of the policies end
FinalBoards == {PolicyGame(StartBoard, 1, pol, 60) : pol \in Policies}

\* the positions handed to computeMove and the ends of the games
NodeBoards == EngineBoards \cup FinalBoards

NodeInit ==
  /\ board \in NodeBoards
  /\ turn \in Sides
  /\ gameEnded = FALSE
  /\ placed = 0
  /\ last = NoCall
  /\ \E depth \in 0 .. MaxNodeDepth, isMaximizing \in BOOLEAN, useMoveOrdering \in BOOLEAN,
        deadline \in -1 .. MaxNodeDeadline :
       ai = [pc |-> "node", deadline |-> deadline, depth |-> depth,
             isMaximizing |-> isMaximizing,
             currentConfig |-> _normalizeConfig(Profile(MaxEmpty, 0, useMoveOrdering)),
             phase |-> _getPhase(64 - _countEmpty(board) - 4 + 1),
             res |-> [val |-> 0, clk |-> 0]]

\* this._negamax(board, depth, -Infinity, Infinity, isMaximizing, aiTurn, phase)
Negamax ==
  /\ ai.pc = "node"
  /\ ai' = [ai EXCEPT !.pc = "negamax",
                      !.res = _negamax(board, ai.depth, -Infinity, Infinity, ai.isMaximizing,
                                       turn, ai.phase, 0)]
  /\ UNCHANGED <<board, turn, gameEnded, placed, last>>

\* this._negamaxEndgame(board, -Infinity, Infinity, isMaximizing, aiTurn)
NegamaxEndgame ==
  /\ ai.pc = "node"
  /\ _countEmpty(board) <= ai.currentConfig.endgameSolverDepth
  /\ ai' = [ai EXCEPT !.pc = "endgame",
                      !.res = _negamaxEndgame(board, -Infinity, Infinity, ai.isMaximizing, turn, 0)]
  /\ UNCHANGED <<board, turn, gameEnded, placed, last>>

NodeNext ==
  \/ Negamax
  \/ NegamaxEndgame

NodeSpec == NodeInit /\ [][NodeNext]_vars

(***************************************************************************)
(* One call of _evaluate, on a position and a side, under weights with     *)
(* signed values and with optional weights set or left out.                *)
(***************************************************************************)
MaxWeight == 30

RequiredNames == {"mobility", "position", "discDiff"}
OptionalNames == {"stability", "corner", "frontier"}

\* PhaseWeights records: the required weights of a default phase, and each optional
\* weight absent, negative, zero or positive
SignedWeights ==
  {[f \in RequiredNames |-> _getDefaultWeights[p][f]] @@ optional :
     p \in DOMAIN _getDefaultWeights,
     optional \in UNION {[S -> {-MaxWeight, 0, MaxWeight}] : S \in SUBSET OptionalNames}}

EvalInit ==
  /\ board \in NodeBoards
  /\ turn \in Sides
  /\ gameEnded = FALSE
  /\ placed = 0
  /\ last = NoCall
  /\ \E weights \in SignedWeights :
       ai = [pc |-> "leaf",
             currentConfig |-> _normalizeConfig([ai |-> [weights |->
                                 [opening |-> weights, midgame |-> weights,
                                  endgame |-> weights]]]),
             phase |-> _getPhase(64 - _countEmpty(board) - 4 + 1),
             score |-> 0]

Evaluate ==
  /\ ai.pc = "leaf"
  /\ ai' = [ai EXCEPT !.pc = "evaluated", !.score = _evaluate(board, turn, ai.phase)]
  /\ UNCHANGED <<board, turn, gameEnded, placed, last>>

EvalNext == Evaluate

EvalSpec == EvalInit /\ [][EvalNext]_vars

(***************************************************************************)
(* The two evaluations of one search side by side: _evaluateFinal on a     *)
(* finished position and _evaluate on a leaf that is not finished, for the *)
(* same side under the same profile.                                       *)
(***************************************************************************)
\* the default profile and the profiles of "shiina", "saki" and "defender"
ShippedProfiles ==
  {[ai |-> [weights |-> _getDefaultWeights]],
   [logicType |-> "dynamic_turn", depth |-> 5,
    parameters |-> [early |-> [mobility |-> 10, position |-> 100, discDiff |-> -30],
                    late |-> [mobility |-> 2, position |-> 50, discDiff |-> 100]]],
   [logicType |-> "static", depth |-> 2,
    parameters |-> [mobility |-> 2, position |-> 40, discDiff |-> 20]],
   [logicType |-> "static", depth |-> 4,
    parameters |-> [mobility |-> 30, position |-> 100, discDiff |-> 0]]}

RankInit ==
  /\ board \in {b \in NodeBoards : BothStuck(b)}
  /\ turn \in Sides
  /\ gameEnded = TRUE
  /\ placed = 0
  /\ last = NoCall
  /\ \E leaf \in {b \in NodeBoards : ~BothStuck(b)}, config \in ShippedProfiles :
       ai = [pc |-> {},
             leaf |-> leaf,
             currentConfig |-> _normalizeConfig(config),
             phase |-> _getPhase(64 - _countEmpty(leaf) - 4 + 1),
             final |-> 0,
             score |-> 0]

EvaluateFinal ==
  /\ "final" \notin ai.pc
  /\ ai' = [ai EXCEPT !.pc = @ \cup {"final"}, !.final = _evaluateFinal(board, turn)]
  /\ UNCHANGED <<board, turn, gameEnded, placed, last>>

EvaluateLeaf ==
  /\ "leaf" \notin ai.pc
  /\ ai' = [ai EXCEPT !.pc = @ \cup {"leaf"}, !.score = _evaluate(ai.leaf, turn, ai.phase)]
  /\ UNCHANGED <<board, turn, gameEnded, placed, last>>

RankNext == EvaluateFinal \/ EvaluateLeaf

RankSpec == RankInit /\ [][RankNext]_vars

(***************************************************************************)
(* The turn sequencing of the incident report, src/dev/report/report.md:   *)
(* processAITurn as patched there, in steps that end at its awaits.        *)
(* syncState copies the turn and the result of checkGameState into the     *)
(* host's state; the player's click places a disc, switches the turn and   *)
(* calls processAITurn.  Both sides choose as in PlaySpec.                 *)
(***************************************************************************)
\* if (state.gameEnded || state.turn !== -1 || state.isThinking) return;
Refused(ended, t, isThinking) == ended \/ t # -1 \/ isThinking

TurnInit ==
  /\ board = StartBoard
  /\ turn = 1
  /\ gameEnded = FALSE
  /\ placed = 0
  /\ last = NoCall
  /\ ai \in {[pc |-> "idle", isThinking |-> FALSE, lastPlacer |-> 0, policy |-> pol] :
               pol \in Policies}

\* onPlayerClick: the player's disc, switchTurn, syncState, then the entry of
\* processAITurn up to await computeBestMove()
onPlayerClick ==
  /\ ai.pc = "idle" /\ ~ai.isThinking /\ ~gameEnded /\ turn = 1
  /\ \E moves \in {getValidMoves(board, 1)} :
       /\ Len(moves) > 0
       /\ \E move \in Choices(moves) : board' = makeMoveBoard(board, move.r, move.c, 1)
  /\ turn' = -1
  /\ gameEnded' = BothStuck(board')
  /\ placed' = placed + 1
  /\ ai' = IF Refused(gameEnded', turn', ai.isThinking)
             THEN [ai EXCEPT !.lastPlacer = 1]
           ELSE [ai EXCEPT !.lastPlacer = 1, !.isThinking = TRUE, !.pc = "compute"]
  /\ UNCHANGED last

\* processAITurn from the result of computeBestMove to await delay(1500), or to its end
AfterCompute ==
  /\ ai.pc = "compute"
  /\ \E moves \in {getValidMoves(board, -1)} :
       IF Len(moves) = 0
         THEN board' = board /\ placed' = placed /\ ai' = [ai EXCEPT !.pc = "switched"]
       ELSE \E move \in Choices(moves) :
              /\ board' = makeMoveBoard(board, move.r, move.c, -1)
              /\ placed' = placed + 1
              /\ ai' = [ai EXCEPT !.pc = "switched", !.lastPlacer = -1]
  /\ turn' = turn * (-1)
  /\ gameEnded' = BothStuck(board')
  /\ UNCHANGED last

\* if (!state.gameEnded && playerMoves.length === 0) ... else state.isThinking = false
AfterSwitch ==
  /\ ai.pc = "switched"
  /\ ai' = IF ~gameEnded /\ Len(getValidMoves(board, 1)) = 0
             THEN [ai EXCEPT !.pc = "delay"]
           ELSE [ai EXCEPT !.pc = "idle", !.isThinking = FALSE]
  /\ UNCHANGED <<board, turn, gameEnded, placed, last>>

\* after the delay: switchTurn, syncState, await processAITurn(), which returns at its
\* guard or runs to its first await; a call that returned lets the caller lower
\* isThinking
AfterDelay ==
  /\ ai.pc = "delay"
  /\ turn' = turn * (-1)
  /\ gameEnded' = BothStuck(board)
  /\ ai' = IF Refused(gameEnded', turn', ai.isThinking)
             THEN [ai EXCEPT !.pc = "idle", !.isThinking = FALSE]
           ELSE [ai EXCEPT !.pc = "compute"]
  /\ UNCHANGED <<board, placed, last>>

TurnNext == onPlayerClick \/ AfterCompute \/ AfterSwitch \/ AfterDelay

TurnSpec == TurnInit /\ [][TurnNext]_vars

(***************************************************************************)
(* AIEngine (src/js/ai_engine.js): its own copies of the move routines.    *)
(***************************************************************************)
\* the while loop of _simulateMove and _canPlace: the cells of the run of -t from
\* (nr, nc), and the cell the loop stops at
RECURSIVE LegacyWalk(_, _, _, _, _, _, _)
LegacyWalk(b, nr, nc, dr, dc, t, flipList) ==
  IF nr >= 0 /\ nr < 8 /\ nc >= 0 /\ nc < 8 /\ b[nr][nc] = -t
    THEN LegacyWalk(b, nr + dr, nc + dc, dr, dc, t, Append(flipList, [r |-> nr, c |-> nc]))
    ELSE [nr |-> nr, nc |-> nc, flipList |-> flipList]

\* for (const flip of flipList) newBoard[flip.r][flip.c] = turn
RECURSIVE LegacyFlip(_, _, _, _)
LegacyFlip(b, flipList, i, t) ==
  IF i > Len(flipList) THEN b
  ELSE LegacyFlip([b EXCEPT ![flipList[i].r][flipList[i].c] = t], flipList, i + 1, t)

RECURSIVE LegacyFlips_Unchecked(_, _, _, _, _)
RECURSIVE LegacyFlips(_, _, _, _, _)
\* a plausible slip: the run is flipped without the test for the disc that closes it
LegacyFlips_Unchecked(newBoard, r, c, t, i) ==
  IF i > 8 THEN newBoard
  ELSE LET w == LegacyWalk(newBoard, r + directions[i][1], c + directions[i][2],
                           directions[i][1], directions[i][2], t, << >>)
       IN  LegacyFlips_Unchecked(LegacyFlip(newBoard, w.flipList, 1, t), r, c, t, i + 1)

\* the for loop of _simulateMove from the i-th direction on; every test reads newBoard
LegacyFlips(newBoard, r, c, t, i) ==
  IF i > 8 THEN newBoard
  ELSE LET w == LegacyWalk(newBoard, r + directions[i][1], c + directions[i][2],
                           directions[i][1], directions[i][2], t, << >>)
       IN  LegacyFlips(IF /\ Len(w.flipList) > 0
                          /\ w.nr >= 0 /\ w.nr < 8 /\ w.nc >= 0 /\ w.nc < 8
                          /\ newBoard[w.nr][w.nc] = t
                         THEN LegacyFlip(newBoard, w.flipList, 1, t)
                         ELSE newBoard,
                       r, c, t, i + 1)

_simulateMove(originalBoard, r, c, t) ==
  LegacyFlips([originalBoard EXCEPT ![r][c] = t], r, c, t, 1)

_canPlace(b, r, c, t) ==
  /\ b[r][c] = 0
  /\ \E i \in 1 .. 8 :
       LET w == LegacyWalk(b, r + directions[i][1], c + directions[i][2],
                           directions[i][1], directions[i][2], t, << >>)
       IN  /\ Len(w.flipList) > 0
           /\ w.nr >= 0 /\ w.nr < 8 /\ w.nc >= 0 /\ w.nc < 8
           /\ b[w.nr][w.nc] = t

_getValidMoves(b, t) == SelectSeq(ScanOrder, LAMBDA m : _canPlace(b, m.r, m.c, t))

(***************************************************************************)
(* One move handed to the three routines: GameCore.simulateMove and        *)
(* AIEngine._simulateMove on the board as it is, then the move lists of    *)
(* the two classes, then makeMove of the instance, which holds the board.  *)
(***************************************************************************)
FlipStride == 4

\* the positions of the games of the policies, after every FlipStride-th placement
FlipBoards ==
  {PolicyGame(StartBoard, 1, pol, k * FlipStride) :
     pol \in Policies, k \in 0 .. (rows * cols - 4) \div FlipStride}

FlipInit ==
  /\ board \in FlipBoards
  /\ turn = 1
  /\ gameEnded = FALSE
  /\ placed = 0
  /\ last = NoCall
  /\ \E r \in Idx, c \in Idx, t \in Sides :
       ai = [pc |-> "start", r |-> r, c |-> c, t |-> t,
             simulated |-> NullBoard, legacy |-> NullBoard,
             moves |-> << >>, legacyMoves |-> << >>, ret |-> FALSE]

SimulateBoth ==
  /\ ai.pc = "start"
  /\ ai' = [ai EXCEPT !.pc = "simulated",
                      !.simulated = simulateMove(board, ai.r, ai.c, ai.t),
                      !.legacy = _simulateMove(board, ai.r, ai.c, ai.t)]
  /\ UNCHANGED <<board, turn, gameEnded, placed, last>>

ListBoth ==
  /\ ai.pc = "simulated"
  /\ ai' = [ai EXCEPT !.pc = "listed",
                      !.moves = getValidMoves(board, ai.t),
                      !.legacyMoves = _getValidMoves(board, ai.t)]
  /\ UNCHANGED <<board, turn, gameEnded, placed, last>>

\* game.makeMove(r, c, t)
MakeIt ==
  /\ ai.pc = "listed"
  /\ \E ok \in {canPlace(board, ai.r, ai.c, ai.t)} :
       /\ board' = IF ok THEN makeMoveBoard(board, ai.r, ai.c, ai.t) ELSE board
       /\ placed' = IF ok THEN placed + 1 ELSE placed
       /\ last' = Call("makeMove", ai.r, ai.c, ai.t, ok)
       /\ ai' = [ai EXCEPT !.pc = "made", !.ret = ok]
  /\ UNCHANGED <<turn, gameEnded>>

FlipNext == SimulateBoth \/ ListBoth \/ MakeIt

FlipSpec == FlipInit /\ [][FlipNext]_vars

(***************************************************************************)
(* Properties of GameCore.                                                 *)
(***************************************************************************)
Compass == {d \in {-1, 0, 1} \X {-1, 0, 1} : d # <<0, 0>>}

Inside(r, c) == r \in Idx /\ c \in Idx

\* the k-th cell from (r, c) in direction d holds v
Holds(b, r, c, d, k, v) ==
  Inside(r + k * d[1], c + k * d[2]) /\ b[r + k * d[1]][c + k * d[2]] = v

\* the lengths k of the runs of discs of -s that start next to (r, c) in direction d
\* and are immediately followed, inside the board, by a disc of s (at most one k)
BoundedRuns(b, r, c, d, s) ==
  IF ~Holds(b, r, c, d, 1, -s) THEN {}
  ELSE {k \in 1 .. 7 : (\A j \in 1 .. k : Holds(b, r, c, d, j, -s)) /\ Holds(b, r, c, d, k + 1, s)}

Qualifies(b, r, c, s) == b[r][c] = 0 /\ \E d \in Compass : BoundedRuns(b, r, c, d, s) # {}

\* C1: on every board of a game and for each side s, getValidMoves(board, s) contains
\* the cell p if and only if p is empty and in one of the 8 directions from p a
\* contiguous run of one or more discs of -s is immediately followed, inside the
\* board, by a disc of s; and each such cell appears exactly once in the result.
C1_ValidMovesAreTheQualifyingCells ==
  \A s \in Sides :
    LET moves == getValidMoves(board, s)
    IN  /\ \A r \in Idx, c \in Idx :
             Qualifies(board, r, c, s) <=> (\E i \in 1 .. Len(moves) : moves[i] = [r |-> r, c |-> c])
        /\ \A i, j \in 1 .. Len(moves) : moves[i] = moves[j] => i = j

\* a board on which a side has a legal cell that closes a run of two or more discs, a
\* legal cell on the edge of the board, and an empty cell next to a disc of the
\* other side that is not legal
C1_Witness ==
  \E s \in Sides :
    /\ \E r \in Idx, c \in Idx, d \in Compass : \E k \in BoundedRuns(board, r, c, d, s) :
         board[r][c] = 0 /\ k >= 2
    /\ \E r \in {0, 7}, c \in Idx : canPlace(board, r, c, s)
    /\ \E r \in Idx, c \in Idx, d \in Compass :
         board[r][c] = 0 /\ Holds(board, r, c, d, 1, -s) /\ ~canPlace(board, r, c, s)

\* the discs a move of s to (r, c) turns over: those of the bounded runs from (r, c)
Turned(b, r, c, s) ==
  UNION {UNION {{<<r + j * d[1], c + j * d[2]>> : j \in 1 .. k} :
                  k \in BoundedRuns(b, r, c, d, s)} : d \in Compass}

\* b with (r, c) and the discs the move turns over set to s, every other cell as in b
AfterMove(b, r, c, s) ==
  LET turned == Turned(b, r, c, s)
  IN  [x \in Idx |-> [y \in Idx |->
        IF (x = r /\ y = c) \/ <<x, y>> \in turned THEN s ELSE b[x][y]]]

\* C2: for every board of a game and every move legal for a side s, the board that
\* simulateMove returns, and the one makeMove leaves in the live board, differ from
\* the board before in exactly the cell played, which becomes s, and the discs of
\* the runs of -s that start next to it and are bounded by a disc of s, which become
\* s; the placement just made by makeMove changed the live board in that way.
C2_MoveChangesOnlyTheBoundedRuns ==
  /\ \A s \in Sides :
       LET moves == getValidMoves(board, s)
       IN  \A i \in 1 .. Len(moves) :
             /\ simulateMove(board, moves[i].r, moves[i].c, s)
                  = AfterMove(board, moves[i].r, moves[i].c, s)
             /\ makeMoveBoard(board, moves[i].r, moves[i].c, s)
                  = AfterMove(board, moves[i].r, moves[i].c, s)
  /\ (last.op = "makeMove" /\ last.ret) => board = AfterMove(last.before, last.r, last.c, last.t)

\* makeMove has just turned over discs in two directions or more, three discs or more
C2_Witness ==
  /\ last.op = "makeMove" /\ last.ret
  /\ Cardinality(Turned(last.before, last.r, last.c, last.t)) >= 3
  /\ Cardinality({d \in Compass : BoundedRuns(last.before, last.r, last.c, d, last.t) # {}}) >= 2
  /\ board # last.before

\* C9: in every state reached from reset() by makeMove calls, legal or not and by
\* either side, the number of occupied cells is 4 plus the number of makeMove calls
\* that returned true.
C9_DiscCount == CountCells(board, 1) + CountCells(board, -1) = 4 + placed

\* a makeMove call has just returned false after two calls that returned true
C9_Witness == placed >= 2 /\ last.op = "makeMove" /\ ~last.ret

\* C10: from the start position, a play in which the side to move places a disc on a
\* legal cell, and passes only when it has none, never makes more than 60 placements
\* and reaches a state in which both sides have no legal cell, where it stays.
C10_PlayEndsWithin60Placements == [](placed <= 60) /\ <>[](BothStuck(board) /\ gameEnded)

\* the play has ended: no side has a legal cell
C10_Witness == BothStuck(board) /\ gameEnded /\ placed > FreePlies /\ placed <= 60

(***************************************************************************)
(* Properties of UnifiedAIEngine.computeMove.                              *)
(***************************************************************************)
\* the legal moves of the side computeMove was called for, as cells
LegalCells == {Cell(getValidMoves(board, turn)[i]) : i \in 1 .. Len(getValidMoves(board, turn))}

Returned == ai.pc = "done"

\* C3: computeMove returns null exactly when the side to move has no legal
\* move; with one or more legal moves it returns one of them, whenever the
\* time budget expires.
C3_NullOnlyWithoutLegalMove ==
  Returned =>
    /\ IsNull(ai.result) <=> LegalCells = {}
    /\ ~IsNull(ai.result) => Cell(ai.result) \in LegalCells

\* C4: in iterative-deepening mode the move returned is the answer of the
\* last depth all of whose clock samples were within the time limit (the
\* first legal move if there is none): a depth during which the budget
\* expired contributes nothing.
C4_ExpiredDepthContributesNothing ==
  (Returned /\ ai.mode = "iterative") => Cell(ai.result) = Cell(ai.cleanBest)

\* the full-width minimax value of position b with mover to play, from the
\* side of aiTurn: no pruning, no ordering, a pass when only the opponent
\* can move, the disc difference times 1000 when neither side can
RECURSIVE Naive(_, _, _)
Naive(b, mover, aiTurn) ==
  LET moves == getValidMoves(b, mover)
      values == {Naive(simulateMove(b, moves[i].r, moves[i].c, mover), -mover, aiTurn) :
                   i \in 1 .. Len(moves)}
  IN  IF Len(moves) = 0
        THEN IF Len(getValidMoves(b, -mover)) = 0
               THEN 1000 * (Cardinality({p \in Idx \X Idx : b[p[1]][p[2]] = aiTurn})
                            - Cardinality({p \in Idx \X Idx : b[p[1]][p[2]] = -aiTurn}))
               ELSE Naive(b, -mover, aiTurn)
      ELSE IF mover = aiTurn THEN CHOOSE v \in values : \A w \in values : w <= v
      ELSE CHOOSE v \in values : \A w \in values : v <= w

\* the minimax value of root candidate m
Resolved(m) == Naive(simulateMove(board, m.r, m.c, turn), -turn, turn)

NoExpiry == ~Expired(ai.clk)

EndgameCall ==
  /\ Cardinality(LegalCells) >= 2
  /\ ai.currentConfig.endgameSolverDepth > 0
  /\ Cardinality({p \in Idx \X Idx : board[p[1]][p[2]] = 0}) <= ai.currentConfig.endgameSolverDepth

\* C6: in endgame-solver mode with randomness 0, two or more legal moves and
\* no expiry of the time budget, the score of the move returned is the
\* full-width minimax value of the position, and the move attains it.
C6_EndgameValueIsMinimax ==
  (Returned /\ EndgameCall /\ ai.currentConfig.randomness = 0 /\ NoExpiry) =>
    /\ ~IsNull(ai.result)
    /\ ai.result.score = Naive(board, turn, turn)
    /\ ai.result.score = Resolved(ai.result)

\* an endgame call that ran to its end on a position with three or more
\* candidates whose minimax values differ
C6_Witness ==
  /\ Returned /\ EndgameCall /\ ai.currentConfig.randomness = 0 /\ NoExpiry
  /\ Len(ai.ranking) >= 3
  /\ ai.ranking[1].score > ai.ranking[Len(ai.ranking)].score
  /\ ai.result.score = Naive(board, turn, turn)

\* C7: with randomness k and n >= 2 legal moves, the move returned is one of
\* the first min(k, n - 1) + 1 entries of the descending-score ranking of all
\* n root candidates.  (A call in iterative-deepening mode whose budget
\* expired before depth 1 was complete scored nothing and returns the first
\* legal move as its best-so-far; it is left out.)
C7_ReturnedMoveIsAmongTheTop ==
  (Returned /\ Cardinality(LegalCells) >= 2
            /\ (ai.mode = "iterative" => ai.lastCompletedDepth >= 1)) =>
    LET n == Cardinality(LegalCells)
        k == ai.currentConfig.randomness
    IN  /\ {Cell(ai.ranking[i]) : i \in 1 .. Len(ai.ranking)} = LegalCells
        /\ Len(ai.ranking) = n
        /\ \A i \in 1 .. Len(ai.ranking) - 1 : ai.ranking[i].score >= ai.ranking[i + 1].score
        /\ \E i \in 1 .. Min(k, n - 1) + 1 : ai.result = ai.ranking[i]

TopScore == CHOOSE v \in {ai.ranking[i].score : i \in 1 .. Len(ai.ranking)} :
              \A i \in 1 .. Len(ai.ranking) : ai.ranking[i].score <= v

\* the first cell of order that is a top-scored entry of the ranking
FirstTop(order) ==
  LET tops == {i \in 1 .. Len(order) :
                 \E j \in 1 .. Len(ai.ranking) : /\ Cell(ai.ranking[j]) = Cell(order[i])
                                                 /\ ai.ranking[j].score = TopScore}
  IN  Cell(order[CHOOSE i \in tops : \A j \in tops : i <= j])

\* the order in which the root candidates are searched
SearchOrder ==
  IF ai.mode = "endgame" THEN _orderMoves(getValidMoves(board, turn))
  ELSE RootOrder(getValidMoves(board, turn))

\* C8 as stated: with randomness 0 and no expiry of the time budget, the move
\* returned is the first in board scan order of the root candidates that
\* share the top score, whether or not useMoveOrdering is enabled.
C8_TieBreakIsScanOrder ==
  (Returned /\ ai.currentConfig.randomness = 0 /\ NoExpiry /\ Len(ai.ranking) >= 1) =>
    Cell(ai.result) = FirstTop(getValidMoves(board, turn))

\* C8 amended: with randomness 0 the move returned is the first, in the order
\* in which the root candidates were searched, of the scored candidates that
\* share the top score; that order is the priority order of _orderMoves in
\* endgame-solver mode and when useMoveOrdering is enabled, scan order
\* otherwise.
C8_TieBreakIsSearchOrder ==
  (Returned /\ ai.currentConfig.randomness = 0 /\ Len(ai.ranking) >= 1) =>
    Cell(ai.result) = FirstTop(SearchOrder)

\* two candidates share the top score and the one searched first is not the
\* first in scan order
C8_Witness ==
  /\ Returned /\ ai.currentConfig.randomness = 0 /\ NoExpiry
  /\ Len(ai.ranking) >= 2
  /\ ai.ranking[1].score = ai.ranking[2].score
  /\ FirstTop(SearchOrder) # FirstTop(getValidMoves(board, turn))
  /\ Cell(ai.result) = FirstTop(SearchOrder)

(***************************************************************************)
(* Properties of the board objects of a search.                            *)
(***************************************************************************)
\* frames j > i of the stack that work on the object of frame i do so through passes only
SharedByPass(i, j) == \A k \in i .. j - 1 : ai.stack[k].pass

\* C11: computeMove never writes to the board it is given, and every
\* position the search explores is a clone made by simulateMove that no
\* other node writes to: the given board keeps its cells, the boards of two
\* frames have no row array in common unless the later frame was reached by
\* passes alone, and no step changes a row array that existed before it.
C11_SearchWritesOnlyToItsClones ==
  /\ [](/\ Deref(ai.heap, ai.input) = board
        /\ \A i, j \in 1 .. Len(ai.stack) :
             i < j => IF ai.stack[i].obj = ai.stack[j].obj THEN SharedByPass(i, j)
                      ELSE RowAddrs(ai.stack[i].obj) \cap RowAddrs(ai.stack[j].obj) = {})
  /\ [][\A a \in DOMAIN ai.heap \cap DOMAIN ai'.heap : ai'.heap[a] = ai.heap[a]]_vars

\* a search three calls deep, one of them a pass, on clones that differ from the given board
C11_Witness ==
  /\ ai.pc = "search" /\ Len(ai.stack) >= 3
  /\ \E k \in 1 .. Len(ai.stack) : ai.stack[k].pass /\ ai.stack[k].i = 2
  /\ Deref(ai.heap, ai.stack[Len(ai.stack)].obj) # board
  /\ Deref(ai.heap, ai.input) = board

(***************************************************************************)
(* Properties of the worker.                                               *)
(***************************************************************************)
\* the messages posted for request k
Answers(k) == {i \in 1 .. Len(ai.posted) : ai.postedFor[i] = k}

\* C12: for every request delivered to the worker, in any sequence of
\* requests, the worker posts exactly one response: never more than one,
\* and again and again every request delivered so far has its one.  The
\* response is a RESULT with a move or an ERROR with a message, it carries
\* the requestId of that request, and it is the ERROR when the computation
\* failed.
C12_OneResponsePerRequest ==
  /\ [](\A k \in 1 .. Len(ai.requests) :
          /\ Cardinality(Answers(k)) <= 1
          /\ \A i \in Answers(k) :
               /\ ai.posted[i].requestId = ai.requests[k].requestId
               /\ \/ ai.posted[i].type = "RESULT" /\ DOMAIN ai.posted[i] = {"type", "move", "requestId"}
                  \/ ai.posted[i].type = "ERROR" /\ DOMAIN ai.posted[i] = {"type", "error", "requestId"}
               /\ Throws(ai.requests[k]) => ai.posted[i].type = "ERROR")
  /\ []<>(\A k \in 1 .. Len(ai.requests) : Cardinality(Answers(k)) = 1)

\* a failed request and a well-formed one, delivered in that order with different
\* requestIds, both answered
C12_Witness ==
  /\ ai.handled = 2
  /\ Throws(ai.requests[1]) /\ ~Throws(ai.requests[2])
  /\ ai.requests[1].requestId # ai.requests[2].requestId
  /\ \A k \in 1 .. 2 : Cardinality(Answers(k)) = 1
  /\ ~IsNull(ai.posted[3].move)

(***************************************************************************)
(* Properties of _normalizeConfig.                                         *)
(***************************************************************************)
\* C13: config normalization is idempotent: normalizing a normalized profile
\* gives it back, in every field.
C13_NormalizationIsIdempotent ==
  ai.calls = 2 => ai.twice = ai.once

\* C14: a legacy profile with depth d normalizes to maxDepth 2, 3, 4, 6 for
\* d = 1, 2, 3, 4 and to d + 2 for every other d, d = 0 included; depth 4
\* gives maxDepth 6 and endgameSolverDepth 8.
C14_LegacyDepthMapping ==
  (ai.calls >= 1 /\ ~Has(ai.config, "ai") /\ Has(ai.config, "depth")) =>
    LET d == ai.config.depth
    IN  /\ ai.once.maxDepth = CASE d = 1 -> 2 [] d = 2 -> 3 [] d = 3 -> 4 [] d = 4 -> 6
                                [] OTHER -> d + 2
        /\ d = 4 => ai.once.endgameSolverDepth = 8

(***************************************************************************)
(* Properties of the search modes and of the values of the search.         *)
(***************************************************************************)
\* the discs of side s less those of the other side
DiscLead(b, s) ==
  Cardinality({p \in Idx \X Idx : b[p[1]][p[2]] = s})
  - Cardinality({p \in Idx \X Idx : b[p[1]][p[2]] = -s})

\* the terminal values of the finished positions that play from b can reach
RECURSIVE Terminals(_, _, _)
Terminals(b, mover, aiTurn) ==
  LET moves == getValidMoves(b, mover)
  IN  IF Len(moves) = 0
        THEN IF Len(getValidMoves(b, -mover)) = 0 THEN {1000 * DiscLead(b, aiTurn)}
             ELSE Terminals(b, -mover, aiTurn)
      ELSE UNION {Terminals(simulateMove(b, moves[i].r, moves[i].c, mover), -mover, aiTurn) :
                    i \in 1 .. Len(moves)}

\* C15: with two or more legal moves the exact endgame solver is used if and
\* only if endgameSolverDepth > 0 and the empty cells number at most
\* endgameSolverDepth, iterative deepening otherwise; in endgame mode the
\* score of a root candidate is made of terminal values only (disc
\* difference x 1000 of a finished position below it), or is the initial
\* +-Infinity of a search cut short: never a heuristic evaluation.
C15_ModeAndEndgameLeaves ==
  (ai.pc # "idle" /\ Cardinality(LegalCells) >= 2) =>
    LET exact == /\ ai.currentConfig.endgameSolverDepth > 0
                 /\ Cardinality({p \in Idx \X Idx : board[p[1]][p[2]] = 0})
                      <= ai.currentConfig.endgameSolverDepth
    IN  /\ ai.mode = IF exact THEN "endgame" ELSE "iterative"
        /\ ai.mode = "endgame" =>
             \A i \in 1 .. Len(ai.scoredMoves) :
               ai.scoredMoves[i].score \in
                 {Infinity, -Infinity}
                 \cup Terminals(simulateMove(board, ai.scoredMoves[i].r, ai.scoredMoves[i].c, turn),
                                -turn, turn)

\* an endgame call on a position with exactly endgameSolverDepth empty cells that scored
\* every candidate, with different scores
C15_Witness ==
  /\ Returned /\ ai.mode = "endgame" /\ NoExpiry
  /\ Cardinality({p \in Idx \X Idx : board[p[1]][p[2]] = 0}) = ai.currentConfig.endgameSolverDepth
  /\ Len(ai.ranking) = Cardinality(LegalCells)
  /\ ai.ranking[1].score > ai.ranking[Len(ai.ranking)].score

\* the side to move at the node
Mover == IF ai.isMaximizing THEN turn ELSE -turn

\* C16: at a node of the heuristic search where neither side has a legal
\* move, the value is the terminal evaluation, disc difference x 1000 from
\* the side of the AI, whatever the remaining depth, 0 included.
C16_FinishedNodeHasTerminalValue ==
  (ai.pc = "negamax" /\ BothStuck(board)) => ai.res.val = 1000 * DiscLead(board, turn)

\* the node is a pass: its side to move has no legal move, the other side has
PassNode == ~hasValidMove(board, Mover) /\ hasValidMove(board, -Mover)

\* C17: at a node where the side to move has no legal move and the other
\* side has, the value is the value the search gives the same board with
\* the other side to move and the role swapped: at remaining depth - 1 in
\* the heuristic search, with no depth in the endgame search.
C17_PassIsTheOtherSidesNode ==
  /\ (ai.pc = "negamax" /\ PassNode /\ ai.depth >= 1) =>
       ai.res.val = _negamax(board, ai.depth - 1, -Infinity, Infinity, ~ai.isMaximizing,
                             turn, ai.phase, 1).val
  /\ (ai.pc = "endgame" /\ PassNode) =>
       ai.res = _negamaxEndgame(board, -Infinity, Infinity, ~ai.isMaximizing, turn, 0)

\* a pass with two or more plies left, below which the other side has a choice that
\* the search resolved
C17_Witness ==
  /\ ai.pc = "negamax" /\ PassNode /\ ai.depth >= 2 /\ ai.deadline = -1
  /\ Len(getValidMoves(board, -Mover)) >= 2
  /\ ai.res.val # _evaluate(board, turn, ai.phase)
  /\ ai.res.val = _negamax(board, ai.depth - 1, -Infinity, Infinity, ~ai.isMaximizing,
                           turn, ai.phase, 1).val

\* _negamax without cut-offs and without move ordering
RECURSIVE PlainNegamax(_, _, _, _, _)
PlainNegamax(b, depth, isMaximizing, aiTurn, phase) ==
  IF depth = 0 THEN _evaluate(b, aiTurn, phase)
  ELSE LET turnOwner == IF isMaximizing THEN aiTurn ELSE -aiTurn
           moves == getValidMoves(b, turnOwner)
           values == {PlainNegamax(simulateMove(b, moves[i].r, moves[i].c, turnOwner),
                                   depth - 1, ~isMaximizing, aiTurn, phase) :
                        i \in 1 .. Len(moves)}
       IN  IF Len(moves) = 0
             THEN IF Len(getValidMoves(b, -turnOwner)) = 0 THEN _evaluateFinal(b, aiTurn)
                  ELSE PlainNegamax(b, depth - 1, ~isMaximizing, aiTurn, phase)
           ELSE IF isMaximizing THEN CHOOSE v \in values : \A w \in values : w <= v
           ELSE CHOOSE v \in values : \A w \in values : v <= w

\* the calls of _negamax with depth > 0 that the search without cut-offs makes
RECURSIVE PlainCalls(_, _, _, _)
RECURSIVE PlainCallsFrom(_, _, _, _, _, _)
PlainCallsFrom(b, moves, i, depth, isMaximizing, aiTurn) ==
  IF i > Len(moves) THEN 0
  ELSE PlainCalls(simulateMove(b, moves[i].r, moves[i].c,
                               IF isMaximizing THEN aiTurn ELSE -aiTurn),
                  depth - 1, ~isMaximizing, aiTurn)
       + PlainCallsFrom(b, moves, i + 1, depth, isMaximizing, aiTurn)

PlainCalls(b, depth, isMaximizing, aiTurn) ==
  IF depth = 0 THEN 0
  ELSE LET turnOwner == IF isMaximizing THEN aiTurn ELSE -aiTurn
           moves == getValidMoves(b, turnOwner)
       IN  1 + IF Len(moves) = 0
                 THEN IF Len(getValidMoves(b, -turnOwner)) = 0 THEN 0
                      ELSE PlainCalls(b, depth - 1, ~isMaximizing, aiTurn)
               ELSE PlainCallsFrom(b, moves, 1, depth, isMaximizing, aiTurn)

\* C18: when the time budget does not expire, the value _negamax and
\* _negamaxEndgame compute with the window (-Infinity, Infinity) is the
\* value of the same search without cut-offs and without move ordering,
\* for every position, side, depth and setting of useMoveOrdering.
C18_PruningKeepsTheValue ==
  /\ (ai.pc = "negamax" /\ ai.deadline = -1) =>
       ai.res.val = PlainNegamax(board, ai.depth, ai.isMaximizing, turn, ai.phase)
  /\ (ai.pc = "endgame" /\ ai.deadline = -1) => ai.res.val = Naive(board, Mover, turn)

\* a search of depth MaxNodeDepth with move ordering that made fewer calls than the
\* search without cut-offs
C18_Witness ==
  /\ ai.pc = "negamax" /\ ai.deadline = -1 /\ ai.depth = MaxNodeDepth
  /\ ai.currentConfig.useMoveOrdering
  /\ ai.res.clk < PlainCalls(board, ai.depth, ai.isMaximizing, turn)
  /\ ai.res.val = PlainNegamax(board, ai.depth, ai.isMaximizing, turn, ai.phase)

\* the value of a term of the heuristic
Term(f, b, aiTurn) ==
  CASE f = "position" -> _evaluatePosition(b, aiTurn)
    [] f = "mobility" -> _evaluateMobility(b, aiTurn)
    [] f = "stability" -> _evaluateStability(b, aiTurn)
    [] f = "discDiff" -> _evaluateDiscDiff(b, aiTurn)
    [] f = "corner" -> _evaluateCorners(b, aiTurn)
    [] f = "frontier" -> _evaluateFrontier(b, aiTurn)

RECURSIVE WeightedSum(_, _, _, _)
WeightedSum(names, weights, b, aiTurn) ==
  IF names = {} THEN 0
  ELSE LET f == CHOOSE g \in names : TRUE
       IN  (IF f \in DOMAIN weights THEN weights[f] ELSE 0) * Term(f, b, aiTurn)
           + WeightedSum(names \ {f}, weights, b, aiTurn)

\* C19: the heuristic score of a board for a side is the sum over the six
\* terms of weight x term, an absent optional weight counting as 0; a
\* negative weight contributes weight x term.
C19_ScoreIsTheWeightedSum ==
  ai.pc = "evaluated" =>
    ai.score = WeightedSum(WeightNames, _getWeights(ai.phase), board, turn)

\* C20: for every finished position with a non-zero disc difference, every
\* leaf that is not finished and every shipped weight set, the terminal
\* value of a win is greater than the heuristic value of the leaf, and the
\* terminal value of a loss is smaller.
C20_TerminalOutranksHeuristic ==
  ai.pc = {"final", "leaf"} =>
    /\ DiscLead(board, turn) > 0 => ai.final > ai.score
    /\ DiscLead(board, turn) < 0 => ai.final < ai.score

\* C21: in the patched sequencing, whenever isThinking is false and the
\* game is not over it is the player's turn, and the AI places two discs
\* in a row only when the player had no legal move in between.
C21_IdleMeansPlayersTurn ==
  /\ []((~ai.isThinking /\ ~gameEnded) => turn = 1)
  /\ [][(board' # board /\ ai.lastPlacer = -1 /\ ai'.lastPlacer = -1)
          => ~hasValidMove(board, 1)]_vars

\* C22: for every legal move, the board makeMove leaves in place, the board
\* simulateMove returns and the board AIEngine._simulateMove returns are the
\* same cell for cell; and getValidMoves of GameCore and _getValidMoves of
\* AIEngine return the same list.
C22_TheThreeCopiesAgree ==
  /\ (ai.pc = "simulated" /\ Qualifies(board, ai.r, ai.c, ai.t)) => ai.simulated = ai.legacy
  /\ (ai.pc = "made" /\ Qualifies(last.before, ai.r, ai.c, ai.t)) =>
       /\ ai.ret
       /\ board = ai.simulated
       /\ board = ai.legacy
  /\ ai.pc \in {"listed", "made"} => ai.moves = ai.legacyMoves

\* a move that turns discs over in three or more directions, one of them a run of two
\* or more, on a board with other runs of the opponent that the move does not close
C22_Witness ==
  /\ ai.pc = "made" /\ ai.ret
  /\ Cardinality({d \in Compass : BoundedRuns(last.before, ai.r, ai.c, d, ai.t) # {}}) >= 3
  /\ \E d \in Compass : \E k \in BoundedRuns(last.before, ai.r, ai.c, d, ai.t) : k >= 2
  /\ \E d \in Compass : /\ Holds(last.before, ai.r, ai.c, d, 1, -ai.t)
                        /\ BoundedRuns(last.before, ai.r, ai.c, d, ai.t) = {}
  /\ board = ai.simulated /\ board = ai.legacy /\ board # last.before
  /\ Len(ai.moves) >= 2 /\ ai.moves = ai.legacyMoves

\* C23: for every cell that is not legal for the side (occupied, or empty
\* with no bounded run of the other side), makeMove returns false and leaves
\* the board, the turn and gameEnded as they were, and simulateMove returns
\* null and leaves its input board as it was.
C23_IllegalMoveHasNoEffect ==
  /\ []((ai.pc = "simulated" /\ ~Qualifies(board, ai.r, ai.c, ai.t)) =>
          ai.simulated = NullBoard)
  /\ [][ai'.pc = "simulated" => board' = board]_vars
  /\ [][(ai'.pc = "made" /\ ~Qualifies(board, ai.r, ai.c, ai.t)) =>
          (~ai'.ret /\ board' = board /\ turn' = turn /\ gameEnded' = gameEnded)]_vars

\* makeMove and simulateMove refused an empty cell next to a run of the other side
\* that no disc of the side closes, on a board where the side has legal cells
C23_Witness ==
  /\ ai.pc = "made" /\ ~ai.ret /\ ai.simulated = NullBoard /\ board = last.before
  /\ board[ai.r][ai.c] = 0
  /\ \E d \in Compass : Holds(board, ai.r, ai.c, d, 2, -ai.t)
  /\ ~Qualifies(board, ai.r, ai.c, ai.t)
  /\ Len(ai.moves) > 0

\* C24: gameEnded implies that neither side has a legal move; once the game
\* has ended every makeMove returns false, the board does not change and
\* gameEnded stays true until reset(); and checkGameState reports
\* isGameOver = true exactly when neither side has a legal move or gameEnded
\* was already true.
C24_GameEndIsAbsorbing ==
  /\ [](gameEnded => BothStuck(board))
  /\ [][(gameEnded /\ last'.op # "new") =>
          /\ board' = board
          /\ gameEnded'
          /\ last'.op = "makeMove" => ~last'.ret]_vars
  /\ [][last'.op = "checkGameState" =>
          (last'.ret <=> (BothStuck(board) \/ gameEnded))]_vars

\* a game that has ended with cells left empty, and a makeMove refused after its end
C24_Witness ==
  /\ gameEnded /\ BothStuck(board) /\ _countEmpty(board) > 0
  /\ last.op = "makeMove" /\ ~last.ret /\ last.before = board


====
